---- MODULE Spec2Model ----
(***************************************************************************)
(* Verification model of the sisypho execution substrate:                  *)
(*   - PersistentMCPClient (sisypho/execution/persistent_mcp_client.py)    *)
(*   - SkillExecutor and the skill runner (execution/skill.py)             *)
(***************************************************************************)
EXTENDS Integers, Sequences, FiniteSets, TLC

----------------------------------------------------------------------------
(* Bounds of the model *)

\* largest request id the client may hand out in a checked run
MaxId == 6
\* largest number of server processes spawned in a checked run
MaxSpawn == 2
\* first second of the time step in which payloads are encrypted
BaseTime == 1800
\* largest distance, in seconds, between the encryption time and the
\* timestamp supplied to decrypt_skill_code
MaxDrift == 300
\* largest delay, in seconds, between encryption and execute_skill
MaxDelay == 30
\* seconds the runner's clock is followed second by second
MaxFineClock == 30
\* largest request id a client of the manager may hand out in a checked run
MaxManagerId == 4
\* largest number of processes one client of the manager may spawn
MaxManagerSpawn == 2
\* largest number of browser processes created in a checked run
MaxLaunched == 2
\* largest number of pages obtained in a checked run
MaxPages == 2
\* last second of the clock of the browser session
MaxBrowserClock == 1802
\* longest content array of a tools/call result
MaxContent == 3
\* payloads executed one after the other on one executor
MaxRuns == 3
\* polls of the recording loop that are followed
MaxPolls == 11

----------------------------------------------------------------------------
(* PersistentMCPClient *)

VARIABLES
    initialized,    \* self.initialized
    process,        \* self.process: None, or the pid of the child process
    request_id,     \* self.request_id
    tools,          \* self.tools (names of the cached Tool objects)
    stdout,         \* lines the child wrote to its stdout that were not read yet
    wire,           \* history: every request written to a child's stdin
    greeted,        \* history: the newest child, once its response to
                    \* initialize was read and carried no error
    spawned,        \* history: number of child processes spawned so far
    found_closed,   \* history: pids on whose pipes an I/O error was observed
    alive,          \* history: pids of the children nobody terminated yet
    ret             \* outcome of the last operation, as its caller sees it

clientVars == <<initialized, process, request_id, tools, stdout, wire,
                greeted, spawned, found_closed, alive, ret>>

\* SkillExecutor and its caller
VARIABLES
    payload,          \* the encrypted skill: when it was encrypted, its source
    timestamp,        \* the timestamp supplied to decrypt_skill_code
    stop_on_failure,  \* SkillExecutor.stop_on_failure
    namespace,        \* the namespace the skill code was last executed against
    calls_os,         \* run() of the payload calls a function of corelib.os_utils
    mcp_client_instance,  \* corelib.os_utils._mcp_client_instance
    skill_ret         \* outcome of the last SkillExecutor operation

skillVars == <<payload, timestamp, stop_on_failure, namespace, calls_os,
               mcp_client_instance, skill_ret>>

\* main() of the skill runner
VARIABLES
    clock,            \* seconds since execution_thread.start()
    thread,           \* execution_thread: not started, running or finished
    result,           \* result[0]
    finished_at,      \* history: the clock when the thread finished
    main_pc,          \* where main() is
    printed,          \* what main() printed about the run
    exit_code         \* the status main() exited with

mainVars == <<clock, thread, result, finished_at, main_pc, printed, exit_code>>

\* MCPRecordManager
VARIABLES
    clients,              \* self.clients: the registered servers in insertion
                          \* order, each with its client object and its pipe
    manager_initialized,  \* self.initialized of the manager
    manager_ret           \* outcome of the last operation of the manager

registryVars == <<clients, manager_initialized, manager_ret>>

\* the browser session of sisypho/corelib/browser.py
VARIABLES
    playwright,          \* _playwright is set
    browser,             \* _browser: how it was obtained, the pid it launched
    page,                \* _page: None, or the page object
    chrome_manager,      \* _chrome_manager is set
    chrome_path,         \* ChromeManager.chrome_path
    user_data_dir,       \* ChromeManager.user_data_dir
    debug_port,          \* ChromeManager.debug_port
    chrome_process,      \* ChromeManager.chrome_process: None, or a pid
    session_start_time,  \* ChromeManager.session_start_time
    time,                 \* time.time()
    installed,           \* a Chrome executable is at a well-known location
    profile_found,       \* the user's Chrome profile directory exists
    ports,               \* what listens on each local port
    running,             \* history: pids of launched browsers still running
    page_open,           \* not _page.is_closed()
    responsive,          \* _page.evaluate answers
    created_at,          \* history: when the page at hand was obtained
    pages_made,          \* history: number of pages obtained so far
    launched,            \* history: number of browser processes created
    temp_dirs,           \* history: temporary profile directories on disk
    browser_ret          \* outcome of the last acquisition

browserVars == <<playwright, browser, page, chrome_manager, chrome_path,
                 user_data_dir, debug_port, chrome_process,
                 session_start_time, time, installed, profile_found, ports,
                 running, page_open, responsive, created_at, pages_made,
                 launched, temp_dirs, browser_ret>>

\* the response handling of call_tool_structured
VARIABLES
    response,        \* what _receive_message gave for the tools/call request
    structured_ret   \* what call_tool_structured returned for it

contentVars == <<response, structured_ret>>

\* successive executions on one SkillExecutor
VARIABLES
    execution_context,  \* keys of self.execution_context
    runs,               \* history: number of payloads executed so far
    run_ret             \* what the last payload found and what it wrote

runVars == <<execution_context, runs, run_ret>>

\* RecorderContext: the thread that polls and the thread that leaves the
\* with block
VARIABLES
    recording_thread,  \* where the thread running record_mode is
    poll_count,        \* poll_count of record_mode
    async_exc,         \* a KeyboardInterrupt is set for the recording thread
    exit_pc,           \* where the thread executing __exit__ is
    waited,            \* seconds spent in recording_thread.join(timeout=3.0)
    cleanup_found      \* history: where manager.cleanup() found the thread

recorderVars == <<recording_thread, poll_count, async_exc, exit_pc, waited,
                  cleanup_found>>

otherVars == <<skillVars, mainVars, registryVars, browserVars,
              contentVars,
              runVars,
              recorderVars>>

None == 0

\* names of tools a server may expose, and the tool lists a server may return
ToolNames == {"a", "b"}
ToolSets == {{}, {"a"}, {"a", "b"}}

\* what the child process does with one request written to it:
\*   result / error : one JSON response line echoing the request id
\*   garbage        : one line that is not JSON
\*   closed         : nothing, its stdout is at end of file
\*   write_fail     : the write to its stdin fails (broken pipe)
Env == {"result", "error", "garbage", "closed", "write_fail"}

\* content of a successful tools/call response
Contents == {"json_text", "plain_text", "empty_text", "no_text"}

NoLine == [id |-> 0, kind |-> "none", tools |-> {}, content |-> "none"]

\* the client object together with its pipe, as one value; raised and line
\* carry a pending exception and the last message received, io the lines the
\* running operation has written to and read from the pipes so far (the
\* notification of stop() is left out)
Client == [initialized |-> initialized, process |-> process,
           request_id |-> request_id, tools |-> tools, stdout |-> stdout,
           wire |-> wire, greeted |-> greeted, spawned |-> spawned,
           found_closed |-> found_closed, alive |-> alive,
           raised |-> FALSE, caught |-> FALSE, line |-> NoLine, sent |-> 0,
           pending |-> 0, io |-> <<>>]

Raise(s) == [s EXCEPT !.raised = TRUE]

\* one line on a pipe of the child s.process: written to its stdin (a method)
\* or read from its stdout (the kind of the message)
Line(s, dir, what) == [pid |-> s.process, dir |-> dir, what |-> what]
Log(s, dir, what) == Append(s.io, Line(s, dir, what))

\* _get_next_id
GetNextId(s) == [s EXCEPT !.request_id = @ + 1]

\* _send_message of a request carrying id s.request_id; ok = the write and
\* flush succeed
SendMessage(s, method, ok) ==
    IF s.process = None THEN Raise(s)
    ELSE IF ~ok THEN Raise([s EXCEPT !.found_closed = @ \cup {s.process}])
    ELSE [s EXCEPT !.wire = Append(@, [id |-> s.request_id, method |-> method,
                                      pid |-> s.process]),
                   !.io = Log(s, "write", method),
                   !.sent = s.request_id]

\* _send_message of a notification (no id, no response expected)
SendNotification(s, method, ok) ==
    IF s.process = None THEN Raise(s)
    ELSE IF ~ok THEN Raise([s EXCEPT !.found_closed = @ \cup {s.process}])
    ELSE [s EXCEPT !.io = Log(s, "write", method)]

\* the child process answers the request it just read with one line on its
\* stdout, or with nothing when it has closed the stream
ServerReply(s, e, ts, c) ==
    IF e \in {"closed", "write_fail"} THEN s
    ELSE [s EXCEPT !.stdout = Append(@, [id |-> s.request_id, kind |-> e,
                                        tools |-> ts, content |-> c])]

\* _receive_message: one blocking readline; an empty read or a line that is
\* not JSON raises
ReceiveMessage(s) ==
    IF s.process = None THEN Raise(s)
    ELSE IF s.stdout = <<>>
         THEN Raise([s EXCEPT !.found_closed = @ \cup {s.process},
                              !.pending = 0])
    ELSE LET l == Head(s.stdout)
             t == [s EXCEPT !.stdout = Tail(@), !.line = l,
                            !.io = Log(s, "read", l.kind),
                            !.pending = Len(s.stdout)]
         IN  IF l.kind = "garbage" THEN Raise(t) ELSE t

\* how the shutdown of a child goes:
\*   terminated    : the notification is written, terminate(), the child
\*                   exits within the 5 seconds of wait(timeout=5)
\*   killed        : wait(timeout=5) raises TimeoutExpired, kill(), wait()
\*   notify_failed : writing the shutdown notification raises
\*   kill_raises   : TimeoutExpired, and kill() or wait() raises in the handler
StopOutcomes == {"terminated", "killed", "notify_failed", "kill_raises"}

\* the shutdown that also rewinds the id counter
ShutdownResetId(s, o) ==
    LET s1 == SendNotification(s, "notifications/shutdown",
                               o # "notify_failed")
        t  == [s1 EXCEPT !.process = None, !.initialized = FALSE,
                         !.stdout = <<>>, !.raised = s.raised,
                         !.io = s.io, !.request_id = 0]
    IN  IF o = "notify_failed" THEN t
        ELSE IF o = "kill_raises" THEN Raise(t)
        ELSE [t EXCEPT !.alive = @ \ {s.process}]

\* the body of stop() under "if self.process": the shutdown notification,
\* terminate() and wait(timeout=5) in one try block, kill() on
\* TimeoutExpired, any other exception logged, and in every case
\* process = None and initialized = False
Shutdown(s, o) ==
    LET s1 == SendNotification(s, "notifications/shutdown",
                               o # "notify_failed")
        t  == [s1 EXCEPT !.process = None, !.initialized = FALSE,
                         !.stdout = <<>>, !.raised = s.raised,
                         !.io = s.io]
    IN  \* except Exception: terminate() was not reached
        IF o = "notify_failed" THEN t
        \* an exception inside the TimeoutExpired handler propagates
        ELSE IF o = "kill_raises" THEN Raise(t)
        ELSE [t EXCEPT !.alive = @ \ {s.process}]

\* stop() without the test of self.process
StopBodyUnguarded(s, o) ==
    IF s.process = None THEN Raise(s) ELSE Shutdown(s, o)

\* stop()
StopBody(s, o) ==
    IF s.process = None THEN s ELSE Shutdown(s, o)

\* a handshake script: what happens at each step of start(), and how the
\* stop() of a failed start goes (kill() after the timeout leaves the same
\* state as terminate(), so it is enumerated by Stop only)
HandshakeStops == StopOutcomes \ {"killed"}

Handshakes ==
    [spawn : {FALSE}, init : {"result"}, notif : {TRUE}, list : {"result"},
     tools : {{}}, stop : {"terminated"}]
    \cup [spawn : {TRUE}, init : Env \ {"result"}, notif : {TRUE},
          list : {"result"}, tools : {{}}, stop : HandshakeStops]
    \cup [spawn : {TRUE}, init : {"result"}, notif : {FALSE},
          list : {"result"}, tools : {{}}, stop : HandshakeStops]
    \cup [spawn : {TRUE}, init : {"result"}, notif : {TRUE},
          list : Env \ {"result", "error"}, tools : {{}}, stop : HandshakeStops]
    \cup [spawn : {TRUE}, init : {"result"}, notif : {TRUE},
          list : {"error"}, tools : {{}}, stop : {"terminated"}]
    \cup [spawn : {TRUE}, init : {"result"}, notif : {TRUE},
          list : {"malformed"}, tools : ToolSets, stop : HandshakeStops]
    \cup [spawn : {TRUE}, init : {"result"}, notif : {TRUE},
          list : {"result"}, tools : ToolSets, stop : {"terminated"}]

\* _initialize that does not look for an error field in the response
InitializeIgnoreError(s, h) ==
    LET s1 == GetNextId(s)
        s2 == SendMessage(s1, "initialize", h.init # "write_fail")
        s3 == ReceiveMessage(ServerReply(s2, h.init, {}, "none"))
        s4 == SendNotification([s3 EXCEPT !.greeted =
                                    IF s3.line.kind = "error" THEN @
                                    ELSE s3.process],
                               "notifications/initialized", h.notif)
    IN  IF s2.raised THEN s2
        ELSE IF s3.raised THEN s3
        ELSE IF s4.raised THEN s4
        ELSE [s4 EXCEPT !.initialized = TRUE]

\* _initialize
Initialize(s, h) ==
    LET s1 == GetNextId(s)
        s2 == SendMessage(s1, "initialize", h.init # "write_fail")
        s3 == ReceiveMessage(ServerReply(s2, h.init, {}, "none"))
        s4 == SendNotification([s3 EXCEPT !.greeted = s3.process],
                               "notifications/initialized", h.notif)
    IN  IF s2.raised THEN s2
        ELSE IF s3.raised THEN s3
        ELSE IF s3.line.kind = "error" THEN Raise(s3)
        ELSE IF s4.raised THEN s4
        ELSE [s4 EXCEPT !.initialized = TRUE]

\* _list_tools that treats tools/list as fire-and-forget: writes the request
\* and leaves the response in the pipe
ListToolsNoRead(s, h) ==
    LET s1 == GetNextId(s)
        s2 == SendMessage(s1, "tools/list", h.list # "write_fail")
    IN  IF s2.raised THEN s2
        ELSE ServerReply(s2, h.list, h.tools, "none")

\* _list_tools
ListTools(s, h) ==
    LET s1 == GetNextId(s)
        s2 == SendMessage(s1, "tools/list", h.list # "write_fail")
        s3 == ReceiveMessage(ServerReply(s2, h.list, h.tools, "none"))
    IN  IF s2.raised THEN s2
        ELSE IF s3.raised THEN s3
        ELSE IF s3.line.kind = "error" THEN s3
        ELSE IF s3.line.kind = "malformed"
             \* an entry without a name: the tools parsed before it are kept
             THEN Raise([s3 EXCEPT !.tools = s3.line.tools])
        ELSE [s3 EXCEPT !.tools = s3.line.tools]

\* start()
StartBody(s, h) ==
    IF s.initialized THEN s
    ELSE IF ~h.spawn THEN Raise(StopBody(s, h.stop))
    ELSE LET s1 == [s EXCEPT !.process = s.spawned + 1,
                             !.spawned = @ + 1, !.stdout = <<>>,
                             !.greeted = None,
                             !.alive = @ \cup {s.spawned + 1}]
             s2 == Initialize(s1, h)
             s3 == ListTools(s2, h)
         IN  IF s2.raised THEN Raise(StopBody(s2, h.stop))
             ELSE IF s3.raised THEN Raise(StopBody(s3, h.stop))
             ELSE s3

\* the value call_tool_structured returns
StructuredValue(s) ==
    LET l == s.line
    IN
    IF s.caught \/ l.kind = "error" THEN "None"
    ELSE IF l.content = "json_text" THEN "parsed"
    ELSE IF l.content = "plain_text" THEN "text"
    ELSE "None"

\* the value call_tool returns
TextValue(s) ==
    LET l == s.line
    IN
    IF s.caught \/ l.kind = "error" THEN "None"
    ELSE IF l.content \in {"json_text", "plain_text"} THEN "text"
    ELSE "empty"

\* call_tool_structured / call_tool: lazy start, then one request and one read
CallBody(s, h, e, c) ==
    LET s0 == StartBody(s, h)
        s1 == GetNextId([s0 EXCEPT !.sent = 0, !.line = NoLine, !.pending = 0])
        s2 == SendMessage(s1, "tools/call", e # "write_fail")
        s3 == ReceiveMessage(ServerReply(s2, e, {}, c))
    IN  \* the lazy start() is outside the try block
        IF s0.raised THEN [s0 EXCEPT !.sent = 0, !.line = NoLine]
        \* except Exception: log and return None
        ELSE IF s2.raised THEN [s2 EXCEPT !.raised = FALSE, !.caught = TRUE]
        ELSE IF s3.raised THEN [s3 EXCEPT !.raised = FALSE, !.caught = TRUE]
        ELSE s3

\* what the child can still do: a pipe once found closed stays closed, and
\* nothing answers when there is no child
EnvOf(s) == IF s.process = None THEN {"closed"}
            ELSE IF s.process \in s.found_closed THEN {"closed", "write_fail"}
            ELSE Env

\* the handshakes start() can go through; none is run when already initialized
NoHandshake == [spawn |-> FALSE, init |-> "result", notif |-> TRUE,
                list |-> "result", tools |-> {}, stop |-> "terminated"]
HandshakesOf(s) == IF s.initialized THEN {NoHandshake} ELSE Handshakes

\* the content of the response matters only when there is a result
ContentsOf(e) == IF e = "result" THEN Contents ELSE {"none"}

Commit(s) ==
    /\ initialized' = s.initialized
    /\ process' = s.process
    /\ request_id' = s.request_id
    /\ tools' = s.tools
    /\ stdout' = s.stdout
    /\ wire' = s.wire
    /\ greeted' = s.greeted
    /\ spawned' = s.spawned
    /\ found_closed' = s.found_closed
    /\ alive' = s.alive
    /\ UNCHANGED otherVars

Calls == {"call_tool", "call_tool_structured"}

Result(op, s, value) ==
    [op |-> op, outcome |-> IF s.raised THEN "raised" ELSE "returned",
     value |-> IF s.raised THEN "n/a" ELSE value,
     sent |-> s.sent, got |-> s.line.id, pending |-> s.pending,
     io |-> s.io]

ClientInit ==
    /\ initialized = FALSE
    /\ process = None
    /\ request_id = 0
    /\ tools = {}
    /\ stdout = <<>>
    /\ wire = <<>>
    /\ greeted = None
    /\ spawned = 0
    /\ found_closed = {}
    /\ alive = {}
    /\ ret = [op |-> "init", outcome |-> "returned", value |-> "n/a",
              sent |-> 0, got |-> 0, pending |-> 0, io |-> <<>>]

Room(n) == request_id + n <= MaxId /\ spawned < MaxSpawn

Start ==
    /\ Room(2)
    /\ \E h \in HandshakesOf(Client) :
        LET s == StartBody(Client, h)
        IN  Commit(s) /\ ret' = Result("start", [s EXCEPT !.sent = 0,
                                                  !.line = NoLine], "n/a")

\* the ways a stop() of the client s can go; one when there is nothing to stop
StopOutcomesOf(s) == IF s.process = None THEN {"terminated"} ELSE StopOutcomes

Stop ==
    \E o \in StopOutcomesOf(Client) :
        LET s == StopBody(Client, o)
        IN  Commit(s) /\ ret' = Result("stop", s,
                                       IF process # None THEN "stopped"
                                       ELSE IF ret.op = "stop"
                                       THEN "nothing to stop, again"
                                       ELSE "nothing to stop")

GetTools ==
    /\ Room(2)
    /\ \E h \in HandshakesOf(Client) :
        LET s == IF initialized THEN Client ELSE StartBody(Client, h)
        IN  Commit(s) /\ ret' = Result("get_tools", [s EXCEPT !.sent = 0,
                                                      !.line = NoLine], "tools")

CallToolStructured ==
    /\ Room(3)
    /\ \E h \in HandshakesOf(Client) :
       \E e \in EnvOf(StartBody(Client, h)) :
       \E c \in ContentsOf(e) :
        LET s == CallBody(Client, h, e, c)
        IN  Commit(s) /\ ret' = Result("call_tool_structured", s,
                                       StructuredValue(s))

CallTool ==
    /\ Room(3)
    /\ \E h \in HandshakesOf(Client) :
       \E e \in EnvOf(StartBody(Client, h)) :
       \E c \in ContentsOf(e) :
        LET s == CallBody(Client, h, e, c)
        IN  Commit(s) /\ ret' = Result("call_tool", s, TextValue(s))

ClientNext == Start \/ Stop \/ GetTools \/ CallToolStructured \/ CallTool

----------------------------------------------------------------------------
(* call_tool_structured: the content of a response *)

\* an item of the content array: one that is not of type text, a text item
\* whose text is empty, one whose text is white space only, one whose text
\* parses as JSON, and one whose text does not
ContentItems == {"image", "empty_text", "blank_text", "json_text",
                 "plain_text"}

ContentArrays == UNION {[1..n -> ContentItems] : n \in 0..MaxContent}

\* what the call reads: a result with its content array, an error response,
\* or nothing usable (a line that is not JSON, end of file, a failed write)
Responses ==
    [kind : {"result"}, content : ContentArrays]
    \cup [kind : Env \ {"result"}, content : {<<>>}]

\* what the caller gets: None, the parsed text or the raw text, and the
\* content item it was taken from
NoValue == [value |-> "None", item |-> 0]

\* the loop over the content items, from item i on: the first item of type
\* text decides
RECURSIVE ScanContent(_, _)
ScanContent(content, i) ==
    IF i > Len(content) THEN NoValue
    ELSE IF content[i] = "image" THEN ScanContent(content, i + 1)
    ELSE IF content[i] \in {"empty_text", "blank_text"} THEN NoValue
    ELSE IF content[i] = "json_text" THEN [value |-> "parsed", item |-> i]
    ELSE [value |-> "text", item |-> i]

\* the try block of call_tool_structured once the request is written
StructuredResult(r) ==
    \* _receive_message raises, except Exception returns None
    IF r.kind \in {"garbage", "closed", "write_fail"} THEN NoValue
    ELSE IF r.kind = "error" THEN NoValue
    ELSE ScanContent(r.content, 1)

NoResponse == [kind |-> "closed", content |-> <<>>]

ContentIdle ==
    /\ response = NoResponse
    /\ structured_ret = [op |-> "init", value |-> "None", item |-> 0]

ContentInit ==
    /\ response \in Responses
    /\ structured_ret = [op |-> "init", value |-> "None", item |-> 0]

\* one call whose request was answered with response, then the next response
StructuredCall ==
    /\ structured_ret' =
          [op |-> "call_tool_structured",
           value |-> StructuredResult(response).value,
           item |-> StructuredResult(response).item]
    /\ response' = response
    /\ UNCHANGED <<clientVars, skillVars, mainVars, registryVars,
                   browserVars, runVars, recorderVars>>

----------------------------------------------------------------------------
(* SkillExecutor: decryption *)

\* the time step of the one-time password, in seconds
Interval == 30
\* range(-2, 5)
FirstOffset == -2
LastOffset == 4

NoneValue == "<None>"
BadPadding == "<padding error>"

\* bool(x) of a returned value
Truthy(x) == x \notin {NoneValue, "", "False"}

\* the 30-second time step a timestamp falls into (totp.at)
TimeStep(ts) == ts \div Interval

\* sha256(secret + totp.at(ts)): one key per time step
DeriveKey(ts) == <<"somestupidsecret", TimeStep(ts)>>

\* AES-CBC decrypt and unpad: the padding validates under the key the payload
\* was encrypted with, and fails under any other key
Unpad(p, key) ==
    IF key = DeriveKey(p.enc_time) THEN p.source ELSE BadPadding

\* the loop of decrypt_skill_code: every iteration adds its offset to the
\* timestamp left by the iteration before
RECURSIVE DecryptLoop(_, _, _)
DecryptLoop(p, ts, i) ==
    IF i > LastOffset THEN [plaintext |-> NoneValue, tried |-> <<>>]
    ELSE LET t == ts + i * Interval
             pt == Unpad(p, DeriveKey(t))
             rest == DecryptLoop(p, t, i + 1)
         IN  IF pt # BadPadding
             THEN [plaintext |-> pt, tried |-> <<TimeStep(t)>>]
             ELSE [rest EXCEPT !.tried = <<TimeStep(t)>> \o @]

\* decrypt_skill_code
DecryptSkillCode(p, ts) == DecryptLoop(p, ts, FirstOffset)

----------------------------------------------------------------------------
(* SkillExecutor: execution namespace *)

CorelibFunction(m) == [obj |-> "function", module |-> m]
CorelibModule(m) == [obj |-> "module", module |-> m]
StdlibModule == [obj |-> "module", module |-> "stdlib"]

\* the dictionary literal of _create_execution_namespace
FixedNamespace ==
    ("click" :> CorelibFunction("os_utils"))
    @@ ("command" :> CorelibFunction("os_utils"))
    @@ ("type" :> CorelibFunction("os_utils"))
    @@ ("get_element_content" :> CorelibFunction("os_utils"))
    @@ ("navigate" :> CorelibFunction("browser"))
    @@ ("getContent" :> CorelibFunction("browser"))
    @@ ("click_element" :> CorelibFunction("browser"))
    @@ ("create_workbook" :> CorelibFunction("excel"))
    @@ ("open_workbook" :> CorelibFunction("excel"))
    @@ ("write_range" :> CorelibFunction("excel"))
    @@ ("save_workbook" :> CorelibFunction("excel"))
    @@ ("close_workbook" :> CorelibFunction("excel"))
    @@ ("write_cell" :> CorelibFunction("excel"))
    @@ ("os" :> CorelibModule("os_utils"))
    @@ ("browser" :> CorelibModule("browser"))
    @@ ("llm" :> CorelibModule("llm"))
    @@ ("excel" :> CorelibModule("excel"))
    @@ ("user" :> CorelibModule("user"))
    @@ ("sys" :> StdlibModule)
    @@ ("json" :> StdlibModule)
    @@ ("time" :> StdlibModule)
    @@ ("pathlib" :> StdlibModule)
    @@ ("context" :> [obj |-> "dict", module |-> "executor"])
    @@ ("logger" :> [obj |-> "logger", module |-> "logging"])

\* the corelib modules pkgutil.iter_modules finds, in its (sorted) order
ModuleOrder == <<"browser", "browser_mcp_backup", "os_utils">>
CorelibModules == {ModuleOrder[i] : i \in 1..Len(ModuleOrder)}

Attr(n, o, m) == [name |-> n, binding |-> [obj |-> o, module |-> m]]

\* vars(module): what a corelib module's globals hold (a sample of each kind)
ModuleVars(m) ==
    IF m = "browser" THEN
        { Attr("click_element", "function", "browser"),
          Attr("go_back", "function", "browser"),
          Attr("_cleanup_browser", "function", "browser"),
          Attr("sync_playwright", "function", "playwright"),
          Attr("Path", "class", "stdlib"),
          Attr("time", "module", "stdlib") }
    ELSE IF m = "browser_mcp_backup" THEN
        { Attr("click_element", "function", "browser_mcp_backup"),
          Attr("go_back", "function", "browser_mcp_backup"),
          Attr("PersistentMCPClient", "class", "persistent_mcp_client") }
    ELSE
        { Attr("type", "function", "os_utils"),
          Attr("open_app", "function", "os_utils"),
          Attr("_cleanup_mcp_client", "function", "os_utils"),
          Attr("logging", "module", "stdlib"),
          Attr("PersistentMCPClient", "class", "persistent_mcp_client") }

\* _name.startswith('_')
PrivateNames == {"_cleanup_browser", "_cleanup_mcp_client"}

Extend(ns, add) ==
    [n \in DOMAIN ns \cup {a.name : a \in add} |->
        IF n \in DOMAIN ns THEN ns[n]
        ELSE (CHOOSE a \in add : a.name = n).binding]

\* one module's turn of the injection loop: public functions defined in the
\* module itself, under names not bound yet
InjectModule(ns, m) ==
    Extend(ns, {a \in ModuleVars(m) :
                  /\ a.name \notin PrivateNames
                  /\ a.binding.obj = "function"
                  /\ a.binding.module = m
                  /\ a.name \notin DOMAIN ns})

RECURSIVE InjectAll(_, _)
InjectAll(ns, mods) ==
    IF mods = <<>> THEN ns
    ELSE InjectAll(InjectModule(ns, Head(mods)), Tail(mods))

IsIn(S, m) == m \in S

\* _create_execution_namespace, when the modules in imported import cleanly
CreateExecutionNamespace(imported) ==
    InjectAll(FixedNamespace,
              SelectSeq(ModuleOrder, LAMBDA m : IsIn(imported, m)))

\* exec(skill_code, namespace) adds the interpreter's built-ins to the globals
ExecNamespace(imported) ==
    CreateExecutionNamespace(imported)
    @@ ("__builtins__" :> [obj |-> "builtins", module |-> "builtins"])

----------------------------------------------------------------------------
(* SkillExecutor: execution *)

\* kinds of skill source text; "" is the empty text
Sources == {"", "syntax_error", "no_run", "run_not_callable", "run_returns",
            "run_raises"}
Hangs == "run_hangs"

NoNamespace == [n \in {} |-> StdlibModule]

Returned(v, executed, ns) ==
    [outcome |-> "returned", value |-> v, executed |-> executed, ns |-> ns]
Raised(err, executed, ns) ==
    [outcome |-> "raised", value |-> err, executed |-> executed, ns |-> ns]

\* execute_skill_code
ExecuteSkillCode(code, imported) ==
    LET ns == ExecNamespace(imported)
    IN  IF code = "" THEN Raised("ValueError", FALSE, NoNamespace)
        ELSE IF code = "syntax_error" THEN Raised("SyntaxError", TRUE, ns)
        ELSE IF code = "no_run" THEN Raised("KeyError", TRUE, ns)
        ELSE IF code = "run_not_callable" THEN Raised("ValueError", TRUE, ns)
        ELSE IF code = "run_raises" THEN Raised("Exception", TRUE, ns)
        ELSE Returned(NoneValue, TRUE, ns)

\* execute_skill with time.time() = now
ExecuteSkill(p, now, sof, imported) ==
    LET decrypted_skill_code == DecryptSkillCode(p, now).plaintext
        r == ExecuteSkillCode(decrypted_skill_code, imported)
    IN  IF Truthy(decrypted_skill_code)
        THEN IF r.outcome = "raised" THEN r
             ELSE IF ~Truthy(r.value) /\ sof
                  THEN Returned("False", r.executed, r.ns)
                  ELSE Returned("True", r.executed, r.ns)
        ELSE Returned("True", FALSE, NoNamespace)

\* load_and_execute_skill
LoadAndExecuteSkill(exists, p, now, sof, imported) ==
    LET r == ExecuteSkill(p, now, sof, imported)
    IN  IF ~exists THEN Returned("False", FALSE, NoNamespace)
        ELSE IF r.outcome = "raised" THEN Returned("False", r.executed, r.ns)
        ELSE r

\* the sources whose run() is called
RunsRun == {"run_returns", "run_raises"}

\* _get_mcp_client as the functions of corelib.os_utils call it first: the
\* instance after a run of the source code whose run() calls them or not
GetMcpClient(instance, code, calls) ==
    IF calls /\ code \in RunsRun THEN "started" ELSE instance

\* _cleanup_mcp_client: stop() and, in every case, the instance reset
CleanupMcpClient(instance) == NoneValue

\* corelib.os_utils._mcp_client_instance after load_and_execute_skill: the
\* cleanup follows execute_skill inside the try block
LoadAndExecuteSkillClient(instance, exists, p, now, sof, imported, calls) ==
    LET r == ExecuteSkill(p, now, sof, imported)
        after == GetMcpClient(instance, DecryptSkillCode(p, now).plaintext,
                              calls)
    IN  IF ~exists THEN instance
        ELSE IF r.outcome = "raised" THEN after
        ELSE CleanupMcpClient(after)

SkillResult(op, r, d) ==
    [op |-> op, outcome |-> r.outcome, value |-> r.value,
     executed |-> r.executed, plaintext |-> d.plaintext, tried |-> d.tried]

NotDecrypted == [plaintext |-> NoneValue, tried |-> <<>>]

SkillIdle ==
    /\ payload = [enc_time |-> 0, source |-> ""]
    /\ timestamp = 0
    /\ stop_on_failure = FALSE
    /\ namespace = NoNamespace
    /\ calls_os = FALSE
    /\ mcp_client_instance = NoneValue
    /\ skill_ret = [op |-> "init", outcome |-> "returned", value |-> NoneValue,
                    executed |-> FALSE, plaintext |-> NoneValue, tried |-> <<>>]


\* the seconds of the time step in which payloads are encrypted
EncTimes == BaseTime .. (BaseTime + Interval - 1)

DecryptInit ==
    /\ \E T \in EncTimes, d \in (0 - MaxDrift)..MaxDrift, src \in {"", "run_returns"} :
        /\ payload = [enc_time |-> T, source |-> src]
        /\ timestamp = T + d
    /\ stop_on_failure = FALSE
    /\ namespace = NoNamespace
    /\ calls_os = FALSE
    /\ mcp_client_instance = NoneValue
    /\ skill_ret = [op |-> "init", outcome |-> "returned", value |-> NoneValue,
                    executed |-> FALSE, plaintext |-> NoneValue, tried |-> <<>>]

\* one call of decrypt_skill_code(payload, timestamp)
DecryptSkillCodeCall ==
    /\ skill_ret.op = "init"
    /\ LET d == DecryptSkillCode(payload, timestamp)
       IN  skill_ret' = SkillResult("decrypt_skill_code",
                                    Returned(d.plaintext, FALSE, NoNamespace), d)
    /\ UNCHANGED <<payload, timestamp, stop_on_failure, namespace, calls_os,
                   mcp_client_instance>>
    /\ UNCHANGED <<clientVars, mainVars, registryVars, browserVars,
                   contentVars, runVars, recorderVars>>

SkillInit ==
    /\ \E T \in EncTimes, d \in 0..MaxDelay, src \in Sources :
        /\ payload = [enc_time |-> T, source |-> src]
        /\ timestamp = T + d
    /\ stop_on_failure \in BOOLEAN
    /\ namespace = NoNamespace
    \* only a run() that is executed can call anything
    /\ calls_os \in {c \in BOOLEAN : c => payload.source \in RunsRun}
    /\ mcp_client_instance = NoneValue
    /\ skill_ret = [op |-> "init", outcome |-> "returned", value |-> NoneValue,
                    executed |-> FALSE, plaintext |-> NoneValue, tried |-> <<>>]

SkillDone(op, r, d, instance) ==
    /\ skill_ret' = SkillResult(op, r, d)
    /\ namespace' = IF r.executed THEN r.ns ELSE namespace
    /\ mcp_client_instance' = instance
    /\ UNCHANGED <<payload, timestamp, stop_on_failure, calls_os>>
    /\ UNCHANGED <<clientVars, mainVars, registryVars, browserVars,
                   contentVars, runVars, recorderVars>>

\* execute_skill_code(source) called with the source text itself
ExecuteSkillCodeCall ==
    /\ skill_ret.op = "init"
    /\ \E imported \in SUBSET CorelibModules :
        SkillDone("execute_skill_code",
                  ExecuteSkillCode(payload.source, imported), NotDecrypted,
                  GetMcpClient(mcp_client_instance, payload.source, calls_os))

\* execute_skill(payload) at time.time() = timestamp
ExecuteSkillCall ==
    /\ skill_ret.op = "init"
    /\ \E imported \in SUBSET CorelibModules :
        SkillDone("execute_skill",
                  ExecuteSkill(payload, timestamp, stop_on_failure, imported),
                  DecryptSkillCode(payload, timestamp),
                  GetMcpClient(mcp_client_instance,
                               DecryptSkillCode(payload, timestamp).plaintext,
                               calls_os))

\* load_and_execute_skill(file) at time.time() = timestamp
LoadAndExecuteSkillCall ==
    /\ skill_ret.op = "init"
    /\ \E imported \in SUBSET CorelibModules, exists \in BOOLEAN :
        SkillDone("load_and_execute_skill",
                  LoadAndExecuteSkill(exists, payload, timestamp,
                                      stop_on_failure, imported),
                  IF exists THEN DecryptSkillCode(payload, timestamp)
                  ELSE NotDecrypted,
                  LoadAndExecuteSkillClient(mcp_client_instance, exists,
                                            payload, timestamp,
                                            stop_on_failure, imported,
                                            calls_os))

----------------------------------------------------------------------------
(* SkillExecutor: one payload after another *)

\* what a payload may write while it runs: names it assigns at the top level
\* of its code (they land in the dict given to exec), and keys it stores in
\* the dict bound to the name context
PayloadGlobals == {"cache", "token"}
ContextKeys == {"step", "secret"}
RunPayloads == [globals : SUBSET PayloadGlobals, context : SUBSET ContextKeys]

\* execute_skill_code for a payload that defines run: the namespace is the
\* dict _create_execution_namespace builds in this call, its context entry
\* is self.execution_context itself; found is what the payload can read
\* before it has written anything
ExecuteRun(ctx, p) ==
    LET ns == ExecNamespace(CorelibModules)
    IN  [found_globals |-> DOMAIN ns \cap PayloadGlobals,
         found_context |-> IF "context" \in DOMAIN ns THEN ctx ELSE {},
         wrote_globals |-> p.globals,
         wrote_context |-> p.context,
         \* the local namespace is dropped on return, the executor's dict
         \* stays
         execution_context |-> IF "context" \in DOMAIN ns
                               THEN ctx \cup p.context ELSE ctx]

RunIdle ==
    /\ execution_context = {}
    /\ runs = 0
    /\ run_ret = [op |-> "init", found_globals |-> {}, found_context |-> {},
                  wrote_globals |-> {}, wrote_context |-> {}]

\* SkillExecutor.__init__
RunInit == RunIdle

\* execute_skill_code(payload) on the same executor
ExecuteSkillCodeRun ==
    /\ runs < MaxRuns
    /\ \E p \in RunPayloads :
        LET return(r) ==
                /\ execution_context' = r.execution_context
                /\ run_ret' = [op |-> "execute_skill_code",
                               found_globals |-> r.found_globals,
                               found_context |-> r.found_context,
                               wrote_globals |-> r.wrote_globals,
                               wrote_context |-> r.wrote_context]
        IN  return(ExecuteRun(execution_context, p))
    /\ runs' = runs + 1
    /\ UNCHANGED <<clientVars, skillVars, mainVars, registryVars,
                   browserVars, contentVars, recorderVars>>

----------------------------------------------------------------------------
(* RecorderContext and record_mode *)

\* polls after which record_mode clears the captured events
ClearInterval == 10
\* seconds __exit__ waits for the recording thread
RecorderJoinTimeout == 3

\* the positions at which the recording thread is inside manager.call_tool:
\* the request is written and the thread waits in readline for the response
InCall == {"clear_initial", "retrieve_initial", "poll_chrome", "poll_ax",
           "clear"}

\* where the recording thread goes when the call it is in returns or raises
\* an Exception; disconnected: the Chrome poll raised a timeout or
\* connection error, which ends the loop
AfterCall(pos, count, disconnected) ==
    IF pos = "clear_initial" THEN "retrieve_initial"
    ELSE IF pos = "retrieve_initial" THEN "poll_chrome"
    ELSE IF pos = "poll_chrome"
    THEN IF disconnected THEN "finished" ELSE "poll_ax"
    ELSE IF pos = "poll_ax"
    THEN IF (count + 1) % ClearInterval = 0 THEN "clear" ELSE "sleep"
    ELSE "sleep"

RecorderIdle ==
    /\ recording_thread = "not_started"
    /\ poll_count = 0
    /\ async_exc = FALSE
    /\ exit_pc = "outside"
    /\ waited = 0
    /\ cleanup_found = "n/a"

RecorderInit == RecorderIdle

RecorderFrame ==
    UNCHANGED <<clientVars, skillVars, mainVars, registryVars, browserVars,
                contentVars, runVars>>

\* __enter__: the thread running record_mode is started
Enter ==
    /\ exit_pc = "outside" /\ recording_thread = "not_started"
    /\ recording_thread' = "clear_initial"
    /\ exit_pc' = "in_body"
    /\ UNCHANGED <<poll_count, async_exc, waited, cleanup_found>>
    /\ RecorderFrame

\* the call the recording thread is in returns or raises; a KeyboardInterrupt
\* set for the thread is raised as soon as it runs Python code again, and
\* run_recording ends
CallReturns ==
    /\ recording_thread \in InCall
    /\ \E disconnected \in BOOLEAN :
          /\ disconnected => recording_thread = "poll_chrome"
          /\ recording_thread' =
                IF async_exc THEN "finished"
                ELSE AfterCall(recording_thread, poll_count, disconnected)
    /\ poll_count' = IF ~async_exc /\ recording_thread = "poll_ax"
                     THEN poll_count + 1 ELSE poll_count
    /\ async_exc' = FALSE
    /\ UNCHANGED <<exit_pc, waited, cleanup_found>>
    /\ RecorderFrame

\* time.sleep(1) at the end of a round of the loop is over
Wake ==
    /\ recording_thread = "sleep"
    /\ async_exc \/ poll_count < MaxPolls
    /\ recording_thread' = IF async_exc THEN "finished" ELSE "poll_chrome"
    /\ async_exc' = FALSE
    /\ UNCHANGED <<poll_count, exit_pc, waited, cleanup_found>>
    /\ RecorderFrame

\* __exit__ up to the join: PyThreadState_SetAsyncExc when the thread is
\* alive; manager.cleanup() at once when it is not
Exit ==
    /\ exit_pc = "in_body"
    /\ IF recording_thread # "finished"
       THEN /\ async_exc' = TRUE
            /\ exit_pc' = "joining"
            /\ UNCHANGED cleanup_found
       ELSE /\ exit_pc' = "cleanup"
            /\ cleanup_found' = recording_thread
            /\ UNCHANGED async_exc
    /\ UNCHANGED <<recording_thread, poll_count, waited>>
    /\ RecorderFrame

\* a second of recording_thread.join(timeout=3.0) passes while the thread
\* waits for a response (a thread that sleeps wakes within the second)
JoinWaits ==
    /\ exit_pc = "joining" /\ waited < RecorderJoinTimeout
    /\ recording_thread \in InCall
    /\ waited' = waited + 1
    /\ UNCHANGED <<recording_thread, poll_count, async_exc, exit_pc,
                   cleanup_found>>
    /\ RecorderFrame

\* join returns, because the thread ended or the 3 seconds are over, and
\* manager.cleanup() begins
JoinEnds ==
    /\ exit_pc = "joining"
    /\ recording_thread = "finished" \/ waited = RecorderJoinTimeout
    /\ exit_pc' = "cleanup"
    /\ cleanup_found' = recording_thread
    /\ UNCHANGED <<recording_thread, poll_count, async_exc, waited>>
    /\ RecorderFrame

\* manager.cleanup() has stopped every client
CleanupEnds ==
    /\ exit_pc = "cleanup"
    /\ exit_pc' = "done"
    /\ UNCHANGED <<recording_thread, poll_count, async_exc, waited,
                   cleanup_found>>
    /\ RecorderFrame

RecorderNext ==
    \/ Enter \/ CallReturns \/ Wake \/ Exit \/ JoinWaits \/ JoinEnds
    \/ CleanupEnds

----------------------------------------------------------------------------
(* main() of the skill runner: the timeout around load_and_execute_skill *)

\* execution_thread.join(timeout=25000)
JoinTimeout == 25000
\* "Skill execution timed out after 25 seconds"
ReportedDeadline == 25

MainIdle ==
    /\ clock = 0
    /\ thread = "not_started"
    /\ result = NoneValue
    /\ finished_at = 0
    /\ main_pc = "start"
    /\ printed = "nothing"
    /\ exit_code = NoneValue

MainInit ==
    /\ MainIdle
    /\ \E src \in Sources \cup {Hangs} :
        payload = [enc_time |-> BaseTime, source |-> src]
    /\ timestamp \in {BaseTime, BaseTime + MaxDelay}
    /\ stop_on_failure \in BOOLEAN
    /\ namespace = NoNamespace
    /\ calls_os = FALSE
    /\ mcp_client_instance = NoneValue
    /\ skill_ret = [op |-> "init", outcome |-> "returned", value |-> NoneValue,
                    executed |-> FALSE, plaintext |-> NoneValue, tried |-> <<>>]

\* execution_thread.start(), then main() blocks in join
StartThread ==
    /\ main_pc = "start"
    /\ main_pc' = "join"
    /\ thread' = "running"
    /\ UNCHANGED <<clock, result, finished_at, printed, exit_code>>
    /\ UNCHANGED <<clientVars, skillVars, registryVars, browserVars,
                   contentVars, runVars, recorderVars>>

\* does the source text, once decrypted, keep run() from returning
Blocks == Truthy(DecryptSkillCode(payload, timestamp).plaintext)
          /\ payload.source = Hangs

\* execute_with_timeout returns: result[0] = load_and_execute_skill(...)
ThreadFinish ==
    /\ thread = "running"
    /\ ~Blocks
    /\ thread' = "finished"
    /\ result' = LoadAndExecuteSkill(TRUE, payload, timestamp, stop_on_failure,
                                     CorelibModules).value
    /\ finished_at' = clock
    /\ UNCHANGED <<clock, main_pc, printed, exit_code>>
    /\ UNCHANGED <<clientVars, skillVars, registryVars, browserVars,
                   contentVars, runVars, recorderVars>>

\* one second passes while main() is blocked in join; join does not outlast
\* its timeout
Tick ==
    /\ main_pc = "join"
    /\ clock < MaxFineClock
    /\ clock < JoinTimeout
    /\ clock' = clock + 1
    /\ UNCHANGED <<thread, result, finished_at, main_pc, printed, exit_code>>
    /\ UNCHANGED <<clientVars, skillVars, registryVars, browserVars,
                   contentVars, runVars, recorderVars>>

\* time passes until the join timeout expires
TickToTimeout ==
    /\ main_pc = "join"
    /\ clock < JoinTimeout
    /\ clock' = JoinTimeout
    /\ UNCHANGED <<thread, result, finished_at, main_pc, printed, exit_code>>
    /\ UNCHANGED <<clientVars, skillVars, registryVars, browserVars,
                   contentVars, runVars, recorderVars>>

\* join returns: the thread ended or the timeout expired
JoinReturns ==
    /\ main_pc = "join"
    /\ thread = "finished" \/ clock >= JoinTimeout
    /\ main_pc' = "check"
    /\ UNCHANGED <<clock, thread, result, finished_at, printed, exit_code>>
    /\ UNCHANGED <<clientVars, skillVars, registryVars, browserVars,
                   contentVars, runVars, recorderVars>>

\* the rest of main(): is_alive, exception[0], result[0]
ReportAndExit ==
    /\ main_pc = "check"
    /\ main_pc' = "exited"
    /\ IF thread = "running"
       THEN printed' = "Skill execution timed out" /\ exit_code' = 1
       ELSE IF Truthy(result)
       THEN printed' = "Skill execution completed successfully" /\ exit_code' = 0
       ELSE printed' = "Skill execution failed" /\ exit_code' = 1
    /\ UNCHANGED <<clock, thread, result, finished_at>>
    /\ UNCHANGED <<clientVars, skillVars, registryVars, browserVars,
                   contentVars, runVars, recorderVars>>

----------------------------------------------------------------------------
(* MCPRecordManager *)

\* names under which servers are registered; NoServer is an absent (None or
\* empty) server_name argument or return value
ServerNames == {"ax", "chrome"}
NoServer == ""

\* PersistentMCPClient.__init__
NewClient ==
    [initialized |-> FALSE, process |-> None, request_id |-> 0, tools |-> {},
     stdout |-> <<>>, wire |-> <<>>, greeted |-> None, spawned |-> 0,
     found_closed |-> {}, alive |-> {}, raised |-> FALSE, caught |-> FALSE,
     line |-> NoLine, sent |-> 0, pending |-> 0, io |-> <<>>]

\* a client object once the manager has caught and logged what it raised
Settle(s) == [s EXCEPT !.raised = FALSE, !.caught = FALSE, !.line = NoLine,
                       !.sent = 0, !.pending = 0, !.io = <<>>]

\* the manager object as one value; value carries what the operation returns
Manager == [clients |-> clients, initialized |-> manager_initialized,
            value |-> "n/a"]

RegisteredNames(cs) == {cs[i].name : i \in 1..Len(cs)}

IndexOf(cs, n) == CHOOSE i \in 1..Len(cs) : cs[i].name = n

\* executables a server is added from, and Path(server_path).stem: the last
\* component of the path without its suffix
ServerPaths == {"/bin/ax", "/opt/ax.py", "/bin/chrome"}
Stem(server_path) ==
    CASE server_path = "/bin/ax" -> "ax"
      [] server_path = "/opt/ax.py" -> "ax"
      [] server_path = "/bin/chrome" -> "chrome"

\* the name add_server registers under: the one given, the stem of the path
\* when none is given
NameOf(server_path, server_name) ==
    IF server_name = NoServer THEN Stem(server_path) ELSE server_name

\* add_server that binds a fresh client to a name already registered
AddServerBodyRebind(m, n) ==
    IF n \in RegisteredNames(m.clients)
    THEN [m EXCEPT !.clients[IndexOf(m.clients, n)].client = NewClient,
                   !.value = "False"]
    ELSE [m EXCEPT !.clients = Append(@, [name |-> n, client |-> NewClient]),
                   !.value = "True"]

\* add_server under the name n: a name already registered is refused; the
\* new client is created and not started
AddServerBody(m, n) ==
    IF n \in RegisteredNames(m.clients) THEN [m EXCEPT !.value = "False"]
    ELSE [m EXCEPT !.clients = Append(@, [name |-> n, client |-> NewClient]),
                   !.value = "True"]

\* the scripts the servers follow while one operation of the manager runs:
\* a server goes through the same handshake each time it is started
Scripts ==
    {h \in Handshakes :
        /\ h.stop = "terminated"
        /\ h.init = "result"
        /\ h.notif
        /\ h.list \in {"result", "error", "malformed"}
        /\ h.list = "malformed" => h.tools = {"a"}
        /\ h.list = "result" /\ h.spawn => h.tools # {}}

ScriptsOf(m) ==
    {hs \in [ServerNames -> Scripts] :
        \A n \in ServerNames :
            \/ /\ n \in RegisteredNames(m.clients)
               /\ ~m.clients[IndexOf(m.clients, n)].client.initialized
            \/ hs[n] = NoHandshake}

\* initialize_all: nothing when the manager is already initialized; otherwise
\* start() on every client in turn, a failure recorded and the loop continued
InitializeAllBody(m, hs) ==
    IF m.initialized THEN [m EXCEPT !.value = "True"]
    ELSE LET after(started) ==
                 LET success == \A i \in 1..Len(started) : ~started[i].raised
                 IN  [clients |-> [i \in 1..Len(started) |->
                                      [name |-> m.clients[i].name,
                                       client |-> Settle(started[i])]],
                      initialized |-> success,
                      value |-> IF success THEN "True" ELSE "False"]
         IN  after([i \in 1..Len(m.clients) |->
                       StartBody(m.clients[i].client, hs[m.clients[i].name])])

\* client.get_tools(): lazy start, then the cached list
GetToolsBody(s, h) == IF s.initialized THEN s ELSE StartBody(s, h)

\* get_all_tools: the lazy initialize_all, then get_tools() of every client
\* in the order of the dict, [] for a client whose get_tools() raises
GetAllToolsBody(m, hs) ==
    LET collect(m1, got) ==
            [clients |-> [i \in 1..Len(got) |->
                             [name |-> m1.clients[i].name,
                              client |-> Settle(got[i])]],
             initialized |-> m1.initialized,
             value |-> [i \in 1..Len(got) |->
                           [name |-> m1.clients[i].name,
                            tools |-> IF got[i].raised THEN {}
                                      ELSE got[i].tools]]]
        gather(m1) ==
            collect(m1, [i \in 1..Len(m1.clients) |->
                            GetToolsBody(m1.clients[i].client,
                                         hs[m1.clients[i].name])])
    IN  gather(IF ~m.initialized THEN InitializeAllBody(m, hs) ELSE m)

\* the loop of find_tool_server that returns the last server with the tool
RECURSIVE LastMatch(_, _, _)
LastMatch(all_tools, tool_name, i) ==
    IF i > Len(all_tools) THEN NoServer
    ELSE LET later == LastMatch(all_tools, tool_name, i + 1)
         IN  IF later # NoServer THEN later
             ELSE IF tool_name \in all_tools[i].tools THEN all_tools[i].name
             ELSE NoServer

\* the loop of find_tool_server over all_tools.items(), from entry i on
RECURSIVE FirstMatch(_, _, _)
FirstMatch(all_tools, tool_name, i) ==
    IF i > Len(all_tools) THEN NoServer
    ELSE IF tool_name \in all_tools[i].tools THEN all_tools[i].name
    ELSE FirstMatch(all_tools, tool_name, i + 1)

\* find_tool_server
FindToolServerBody(m, hs, tool_name) ==
    LET pick(m1) == [m1 EXCEPT !.value = FirstMatch(m1.value, tool_name, 1)]
    IN  pick(GetAllToolsBody(m, hs))

\* call_tool of the manager that sends a tool it cannot find, or a call for
\* a server it does not know, to the server registered first
ManagerCallBodyFallback(m, hs, tool_name, server_name, e, c) ==
    LET dispatch(m2) ==
            LET target == IF Len(m2.clients) > 0
                           /\ m2.value \notin RegisteredNames(m2.clients)
                        THEN m2.clients[1].name
                        ELSE m2.value
                k == IndexOf(m2.clients, target)
                finish(s) ==
                    [m2 EXCEPT
                       !.clients[k].client = Settle(s),
                       !.value = [result |-> IF s.raised THEN "None"
                                             ELSE StructuredValue(s),
                                  why |-> IF s.raised THEN "raised"
                                          ELSE "called",
                                  target |-> target]]
                send(e1) == finish(CallBody(m2.clients[k].client, hs[target],
                                            e1, IF e1 = "result" THEN c
                                                ELSE "none"))
            IN  IF target = NoServer
                THEN [m2 EXCEPT !.value = [result |-> "None",
                                           why |-> "no tool",
                                           target |-> NoServer]]
                ELSE IF target \notin RegisteredNames(m2.clients)
                THEN [m2 EXCEPT !.value = [result |-> "None",
                                           why |-> "no server",
                                           target |-> target]]
                ELSE send(IF e \in EnvOf(StartBody(m2.clients[k].client,
                                                   hs[target]))
                          THEN e ELSE "closed")
        resolve(m1) ==
            IF server_name = NoServer
            THEN FindToolServerBody(m1, hs, tool_name)
            ELSE [m1 EXCEPT !.value = server_name]
    IN  dispatch(resolve(IF ~m.initialized
                         THEN [InitializeAllBody(m, hs) EXCEPT !.value = "n/a"]
                         ELSE m))

\* call_tool of the manager: lazy initialize_all, the server looked up when
\* none is named, None for an unknown tool or server, and otherwise
\* call_tool_structured of the server's client with every exception caught
ManagerCallBody(m, hs, tool_name, server_name, e, c) ==
    LET dispatch(m2) ==
            LET target == m2.value
                k == IndexOf(m2.clients, target)
                finish(s) ==
                    [m2 EXCEPT
                       !.clients[k].client = Settle(s),
                       !.value = [result |-> IF s.raised THEN "None"
                                             ELSE StructuredValue(s),
                                  why |-> IF s.raised THEN "raised"
                                          ELSE "called",
                                  target |-> target]]
                send(e1) == finish(CallBody(m2.clients[k].client, hs[target],
                                            e1, IF e1 = "result" THEN c
                                                ELSE "none"))
            IN  IF target = NoServer
                THEN [m2 EXCEPT !.value = [result |-> "None",
                                           why |-> "no tool",
                                           target |-> NoServer]]
                ELSE IF target \notin RegisteredNames(m2.clients)
                THEN [m2 EXCEPT !.value = [result |-> "None",
                                           why |-> "no server",
                                           target |-> target]]
                ELSE send(IF e \in EnvOf(StartBody(m2.clients[k].client,
                                                   hs[target]))
                          THEN e ELSE "closed")
        resolve(m1) ==
            IF server_name = NoServer
            THEN FindToolServerBody(m1, hs, tool_name)
            ELSE [m1 EXCEPT !.value = server_name]
    IN  dispatch(resolve(IF ~m.initialized
                         THEN [InitializeAllBody(m, hs) EXCEPT !.value = "n/a"]
                         ELSE m))

\* cleanup without the try block around client.stop()
RECURSIVE CleanupLoopNoCatch(_, _, _, _)
CleanupLoopNoCatch(m, os, i, done) ==
    IF i > Len(m.clients)
    THEN [clients |-> <<>>, initialized |-> FALSE, value |-> done]
    ELSE LET s == StopBody(m.clients[i].client, os[m.clients[i].name])
             m1 == [m EXCEPT !.clients[i].client = Settle(s)]
             d1 == [stopped |-> Append(done.stopped, m.clients[i].name),
                    failed |-> IF s.raised
                               THEN done.failed \cup {m.clients[i].name}
                               ELSE done.failed,
                    raised |-> s.raised]
         IN  IF s.raised THEN [m1 EXCEPT !.value = d1]
             ELSE CleanupLoopNoCatch(m1, os, i + 1, d1)

\* cleanup: stop() of every client from entry i on, an exception logged and
\* the loop continued; then both dicts cleared and initialized = False
RECURSIVE CleanupLoop(_, _, _, _)
CleanupLoop(m, os, i, done) ==
    IF i > Len(m.clients)
    THEN [clients |-> <<>>, initialized |-> FALSE, value |-> done]
    ELSE LET s == StopBody(m.clients[i].client, os[m.clients[i].name])
             m1 == [m EXCEPT !.clients[i].client = Settle(s)]
             d1 == [stopped |-> Append(done.stopped, m.clients[i].name),
                    failed |-> IF s.raised
                               THEN done.failed \cup {m.clients[i].name}
                               ELSE done.failed,
                    raised |-> FALSE]
         IN  CleanupLoop(m1, os, i + 1, d1)

NothingStopped == [stopped |-> <<>>, failed |-> {}, raised |-> FALSE]

\* the ways the stop() of every registered client can go
StopScriptsOf(m) ==
    {os \in [ServerNames -> StopOutcomes] :
        \A n \in ServerNames :
            \/ /\ n \in RegisteredNames(m.clients)
               /\ m.clients[IndexOf(m.clients, n)].client.process # None
            \/ os[n] = "terminated"}

ManagerCommit(m) ==
    /\ clients' = m.clients
    /\ manager_initialized' = m.initialized
    /\ UNCHANGED <<clientVars, skillVars, mainVars, browserVars,
                   contentVars, runVars, recorderVars>>

\* every counter of every registered client is within the bounds
ManagerRoom(m) ==
    \A i \in 1..Len(m.clients) :
        /\ m.clients[i].client.request_id <= MaxManagerId
        /\ m.clients[i].client.spawned <= MaxManagerSpawn

\* what the caller of the manager sees, and what the operation was given
ManagerResult(op, outcome, value, tool, server) ==
    [op |-> op, outcome |-> outcome, value |-> value, tool |-> tool,
     server |-> server, path |-> "n/a", why |-> "n/a", target |-> NoServer,
     registered |-> <<>>, stopped |-> <<>>, failed |-> {}]

ManagerInit ==
    /\ clients = <<>>
    /\ manager_initialized = FALSE
    /\ manager_ret = ManagerResult("init", "returned", "n/a", "n/a", NoServer)

AddServer ==
    \E server_path \in ServerPaths :
    \E server_name \in ServerNames \cup {NoServer} :
        LET return(m) ==
                /\ ManagerCommit(m)
                /\ manager_ret' =
                      [ManagerResult("add_server", "returned", m.value,
                                     "n/a", server_name)
                       EXCEPT !.path = server_path]
        IN  return(AddServerBody(Manager, NameOf(server_path, server_name)))

InitializeAll ==
    \E hs \in ScriptsOf(Manager) :
        LET return(m) ==
                /\ ManagerRoom(m)
                /\ ManagerCommit(m)
                /\ manager_ret' =
                      [ManagerResult("initialize_all", "returned", m.value,
                                     "n/a", NoServer)
                       EXCEPT !.registered =
                                [i \in 1..Len(clients) |-> clients[i].name]]
        IN  return(InitializeAllBody(Manager, hs))

FindToolServer ==
    \E hs \in ScriptsOf(Manager) : \E t \in ToolNames :
        LET return(m) ==
                /\ ManagerRoom(m)
                /\ ManagerCommit(m)
                /\ manager_ret' = ManagerResult("find_tool_server",
                                                "returned", m.value, t,
                                                NoServer)
        IN  return(FindToolServerBody(Manager, hs, t))

\* what the server called does with the request, and the content of a result
ManagerEnv == {"result", "closed"}
ManagerContents == {"json_text"}

ManagerCallTool ==
    \E hs \in ScriptsOf(Manager) : \E t \in ToolNames :
    \E n \in ServerNames \cup {NoServer} :
    \E e \in ManagerEnv : \E c \in ManagerContents :
        LET return(m) ==
                /\ ManagerRoom(m)
                /\ m.value.why = "called" \/ (e = "closed" /\ c = "json_text")
                /\ ManagerCommit(m)
                /\ manager_ret' =
                      [ManagerResult("call_tool", "returned", m.value.result,
                                     t, n)
                       EXCEPT !.why = m.value.why, !.target = m.value.target]
        IN  return(ManagerCallBody(Manager, hs, t, n, e, c))

Cleanup ==
    \E os \in StopScriptsOf(Manager) :
        LET return(m) ==
                /\ ManagerCommit(m)
                /\ manager_ret' =
                      [ManagerResult("cleanup",
                                     IF m.value.raised THEN "raised"
                                     ELSE "returned", "n/a", "n/a", NoServer)
                       EXCEPT !.stopped = m.value.stopped,
                              !.failed = m.value.failed,
                              !.registered =
                                [i \in 1..Len(clients) |-> clients[i].name]]
        IN  return(CleanupLoop(Manager, os, 1, NothingStopped))

ManagerIdle == ManagerInit


----------------------------------------------------------------------------
(* Browser session management (sisypho/corelib/browser.py) *)

\* ports probed for a Chrome that already runs with debugging, in order
ProbedPorts == <<9222, 9223, 9224, 9225>>
\* first port find_available_port tries, and the ports the model follows
StartPort == 9222
Ports == 9222..9226
\* seconds after which a session is restarted
SessionTTL == 1800
\* seconds the clock advances in one step, and its first value
ClockStep == 1801
Epoch == 1

\* what listens on a port: nothing, a Chrome with debugging that somebody
\* else started, another program, or the Chrome this module launched
PortStates == {"closed", "chrome", "other", "own"}

\* the machines of a checked run: whether a Chrome executable and a user
\* profile can be found, and what listens on the probed ports
Hosts ==
    [installed : BOOLEAN, profile_found : BOOLEAN,
     ports : {f \in [Ports -> {"closed", "chrome", "other"}] :
                 /\ f[9222] = "closed" => f[9223] = "closed"
                 /\ f[9223] = "chrome" => f[9222] = "other"
                 /\ f[9223] # "other"
                 /\ f[9224] = "closed" /\ f[9225] = "closed"
                 /\ f[9226] = "closed"}]

\* how launch_chrome_with_debugging goes:
\*   opened      : the debugging port opens within the 15 seconds
\*   exited      : the process exits before the port opens
\*   hung        : the process keeps running and the port never opens
\*   popen_fails : the process cannot be created
\*   taken       : another program starts to listen on the chosen port after
\*                 find_available_port released it; the process keeps
\*                 running without a debugging port
LaunchOutcomes == {"opened", "exited", "hung", "popen_fails", "taken"}

\* what happens in one acquisition: the launch with debugging, the
\* connection over CDP, and the three launches through Playwright
Attempts ==
    {a \in [launch : LaunchOutcomes, cdp : BOOLEAN, with_profile : BOOLEAN,
            standard : BOOLEAN, bundled : BOOLEAN] :
        \* a launch through Playwright that fails makes the next one matter
        /\ a.with_profile => a.standard /\ a.bundled
        /\ a.standard => a.bundled
        \* no launch through Playwright follows a connection that succeeds
        /\ a.cdp => a.with_profile
        \* a launch with debugging that fails leaves no port to connect to
        \* and no path to launch, only the bundled Chromium
        /\ a.launch \notin {"opened", "taken"}
              => ~a.cdp /\ a.with_profile = a.bundled
        \* what took the port does not speak CDP; the fallbacks after a
        \* refused connection are enumerated with the launch that opened
        /\ a.launch = "taken" => ~a.cdp /\ a.with_profile}

NoBrowser == [kind |-> "none", pid |-> None]
NoPath == "none"

\* the profiles made by tempfile.mkdtemp(prefix="sisypho_chrome_"): the copy
\* of the user's profile and the empty one
TempProfiles == {"temp_copy", "temp"}

\* the module's globals, the ChromeManager and the machine as one value;
\* got, tiers, new_pids, reused and raised describe the call in progress
Session ==
    [playwright |-> playwright, browser |-> browser, page |-> page,
     chrome_manager |-> chrome_manager, chrome_path |-> chrome_path,
     user_data_dir |-> user_data_dir, debug_port |-> debug_port,
     chrome_process |-> chrome_process,
     session_start_time |-> session_start_time,
     time |-> time, installed |-> installed, profile_found |-> profile_found,
     ports |-> ports, running |-> running,
     page_open |-> page_open, responsive |-> responsive,
     created_at |-> created_at, pages_made |-> pages_made,
     launched |-> launched, temp_dirs |-> temp_dirs,
     got |-> [path |-> NoPath, profile |-> "none", port |-> None],
     tiers |-> <<>>, new_pids |-> {}, reused |-> FALSE, raised |-> FALSE]

IsPortOpen(b, port) == port \in Ports /\ b.ports[port] # "closed"

\* find_available_port: the first port from start_port on that can be bound,
\* start_port itself when there is none
FindAvailablePort(b) ==
    LET free == {p \in Ports : p >= StartPort /\ b.ports[p] = "closed"}
    IN  IF free = {} THEN StartPort
        ELSE CHOOSE p \in free : \A q \in free : p <= q

\* check_existing_chrome_debug_instances, from the i-th probed port on: the
\* first open port whose /json/version names Chrome, None when there is none
RECURSIVE CheckExistingChromeDebugInstances(_, _)
CheckExistingChromeDebugInstances(b, i) ==
    IF i > Len(ProbedPorts) THEN None
    ELSE IF b.ports[ProbedPorts[i]] \in {"chrome", "own"} THEN ProbedPorts[i]
    ELSE CheckExistingChromeDebugInstances(b, i + 1)

\* the process p is gone, and with it the port it listened on
Terminated(b, p) ==
    [b EXCEPT !.running = @ \ {p},
              !.ports = [q \in Ports |->
                            IF b.ports[q] = "own" /\ p = b.chrome_process
                            THEN "closed" ELSE b.ports[q]]]

\* cleanup_chrome_instance: terminate (kill after 5 seconds) the process of
\* the handle, remove the temporary profile, forget port, time and profile
CleanupChromeInstance(b) ==
    LET b1 == IF b.chrome_process # None
              THEN [Terminated(b, b.chrome_process)
                    EXCEPT !.chrome_process = None]
              ELSE b
        \* "sisypho_chrome_" in self.user_data_dir: shutil.rmtree
        b2 == IF b.user_data_dir \in TempProfiles
              THEN [b1 EXCEPT !.temp_dirs = @ - 1] ELSE b1
    IN  [b2 EXCEPT !.debug_port = None, !.session_start_time = None,
                   !.user_data_dir = "none"]

\* launch_chrome_with_debugging
LaunchChromeWithDebugging(b, port, outcome) ==
    LET pid == b.launched + 1
        b1 == [b EXCEPT !.chrome_process = pid, !.launched = pid,
                        !.new_pids = @ \cup {pid},
                        !.tiers = Append(@, "launch_debugging")]
    IN  \* os.path.dirname(None) raises inside the try block
        IF b.user_data_dir = "none" \/ outcome = "popen_fails"
        THEN [b EXCEPT !.tiers = Append(@, "launch_debugging"),
                       !.got = [path |-> NoPath, profile |-> "none",
                                port |-> None]]
        ELSE IF outcome = "opened"
        THEN [b1 EXCEPT !.running = @ \cup {pid},
                        !.ports[port] = "own",
                        !.debug_port = port,
                        !.session_start_time = b.time,
                        !.got = [path |-> b.chrome_path,
                                 profile |-> b.user_data_dir, port |-> port]]
        \* is_port_open is asked before poll(), and any listener satisfies it
        ELSE IF outcome = "taken"
        THEN [b1 EXCEPT !.running = @ \cup {pid},
                        !.ports[port] = "other",
                        !.debug_port = port,
                        !.session_start_time = b.time,
                        !.got = [path |-> b.chrome_path,
                                 profile |-> b.user_data_dir, port |-> port]]
        ELSE IF outcome = "hung"
        THEN [b1 EXCEPT !.running = @ \cup {pid},
                        !.got = [path |-> NoPath, profile |-> "none",
                                 port |-> None]]
        ELSE [b1 EXCEPT !.got = [path |-> NoPath, profile |-> "none",
                                 port |-> None]]

\* get_chrome_instance
GetChromeInstance(b, a) ==
    LET none == [path |-> NoPath, profile |-> "none", port |-> None]
        launch(b4) ==
            LaunchChromeWithDebugging(b4, FindAvailablePort(b4), a.launch)
        \* the instance of the handle: reused, or cleaned up when too old
        running_instance(b3) ==
            LET open == b3.debug_port # None /\ IsPortOpen(b3, b3.debug_port)
                old == /\ b3.session_start_time # None
                       /\ b3.time - b3.session_start_time > SessionTTL
            IN  IF open /\ ~old
                THEN [b3 EXCEPT !.got = [path |-> b3.chrome_path,
                                         profile |-> b3.user_data_dir,
                                         port |-> b3.debug_port]]
                ELSE launch(IF open THEN CleanupChromeInstance(b3) ELSE b3)
        profile(b1) ==
            LET probing == b1.user_data_dir = "none" /\ b1.profile_found
                existing == CheckExistingChromeDebugInstances(b1, 1)
                b2 == IF probing THEN [b1 EXCEPT !.tiers = Append(@, "attach")]
                      ELSE b1
            IN  IF b1.chrome_path = NoPath THEN [b1 EXCEPT !.got = none]
                ELSE IF probing /\ existing # None
                THEN [b2 EXCEPT !.debug_port = existing,
                                !.user_data_dir = "user",
                                !.session_start_time = b.time,
                                !.got = [path |-> b1.chrome_path,
                                         profile |-> "user",
                                         port |-> existing]]
                \* create_temp_profile_copy, or a fresh temporary directory
                ELSE running_instance(
                        IF b2.user_data_dir # "none" THEN b2
                        ELSE IF probing
                        THEN [b2 EXCEPT !.user_data_dir = "temp_copy",
                                        !.temp_dirs = @ + 1]
                        ELSE [b2 EXCEPT !.user_data_dir = "temp",
                                        !.temp_dirs = @ + 1])
    IN  profile(IF b.chrome_path = NoPath /\ b.installed
                THEN [b EXCEPT !.chrome_path = "chrome"] ELSE b)

\* a page of the browser just obtained becomes _page
NewPage(b, kind, pid) ==
    [b EXCEPT !.browser = [kind |-> kind, pid |-> pid],
              !.page = b.pages_made + 1, !.pages_made = @ + 1,
              !.page_open = TRUE, !.responsive = TRUE,
              !.created_at = b.time]

\* _playwright.chromium.launch of one of the fallbacks
PlaywrightLaunch(b, tier, ok) ==
    LET pid == b.launched + 1
        b1 == [b EXCEPT !.tiers = Append(@, tier)]
    IN  IF ~ok THEN b1
        ELSE NewPage([b1 EXCEPT !.launched = pid,
                                !.running = @ \cup {pid},
                                !.new_pids = @ \cup {pid}],
                     "launched", pid)

\* _get_browser_client: the page it has when that page is open; otherwise
\* get_chrome_instance and a connection over CDP, then the launches through
\* Playwright with the profile, without it, and of the bundled Chromium
GetBrowserClientBody(b, a) ==
    LET fatal(f) == IF a.bundled THEN f ELSE [f EXCEPT !.raised = TRUE]
        bundled(f) == fatal(PlaywrightLaunch(f, "bundled", a.bundled))
        after_standard(f2) == IF a.standard THEN f2 ELSE bundled(f2)
        standard(f1) ==
            after_standard(PlaywrightLaunch(f1, "launch_standard",
                                            a.standard))
        after_profile(f1) == IF a.with_profile THEN f1 ELSE standard(f1)
        fallbacks(c1) ==
            IF c1.got.path # NoPath /\ c1.got.port # None /\ a.cdp
            THEN NewPage(c1, "cdp", None)
            \* profile_dir is set whenever chrome_path is
            ELSE IF c1.got.path # NoPath
            THEN after_profile(PlaywrightLaunch(c1, "launch_profile",
                                                a.with_profile))
            ELSE bundled(c1)
        connect(b1) ==
            fallbacks(IF b1.got.path # NoPath /\ b1.got.port # None
                      THEN [b1 EXCEPT !.tiers = Append(@, "connect")]
                      ELSE b1)
    IN  IF b.page # None /\ b.page_open THEN [b EXCEPT !.reused = TRUE]
        ELSE connect(GetChromeInstance([b EXCEPT !.playwright = TRUE,
                                                 !.chrome_manager = TRUE],
                                       a))

\* _cleanup_browser: close the browser, stop Playwright and clean up the
\* Chrome instance in one try block whose exceptions are ignored, then
\* forget every global
CleanupBrowserBody(b, close_ok) ==
    LET b1 == IF b.browser.kind = "launched"
              THEN Terminated(b, b.browser.pid) ELSE b
        b2 == IF b.chrome_manager THEN CleanupChromeInstance(b1) ELSE b1
        b3 == IF b.browser.kind # "none" /\ ~close_ok THEN b ELSE b2
    IN  [b3 EXCEPT !.playwright = FALSE, !.browser = NoBrowser,
                   !.page = None, !.chrome_manager = FALSE,
                   !.chrome_path = NoPath, !.user_data_dir = "none",
                   !.debug_port = None, !.chrome_process = None,
                   !.session_start_time = None,
                   !.page_open = FALSE, !.responsive = FALSE]

\* get_browser_health_info, the entries should_restart_browser_session reads
GetBrowserHealthInfo(b, memory_high) ==
    [browser_active |-> b.page # None /\ b.page_open,
     page_responsive |-> b.page # None /\ b.page_open /\ b.responsive,
     session_age_seconds |->
        IF b.chrome_manager /\ b.session_start_time # None
        THEN b.time - b.session_start_time ELSE None,
     memory_high |-> b.chrome_manager /\ b.chrome_process # None
                     /\ memory_high]

\* should_restart_browser_session
ShouldRestartBrowserSession(b, memory_high) ==
    LET health == GetBrowserHealthInfo(b, memory_high)
    IN  \/ /\ health.session_age_seconds # None
           /\ health.session_age_seconds > SessionTTL
        \/ health.memory_high
        \/ health.browser_active /\ ~health.page_responsive

BrowserCommit(b) ==
    /\ playwright' = b.playwright
    /\ browser' = b.browser
    /\ page' = b.page
    /\ chrome_manager' = b.chrome_manager
    /\ chrome_path' = b.chrome_path
    /\ user_data_dir' = b.user_data_dir
    /\ debug_port' = b.debug_port
    /\ chrome_process' = b.chrome_process
    /\ session_start_time' = b.session_start_time
    /\ ports' = b.ports
    /\ running' = b.running
    /\ page_open' = b.page_open
    /\ responsive' = b.responsive
    /\ created_at' = b.created_at
    /\ pages_made' = b.pages_made
    /\ launched' = b.launched
    /\ temp_dirs' = b.temp_dirs
    /\ UNCHANGED <<time, installed, profile_found>>
    /\ UNCHANGED <<clientVars, skillVars, mainVars, registryVars,
                   contentVars, runVars, recorderVars>>

\* the probed ports on which a Chrome with debugging listens
ChromePorts(b) ==
    {ProbedPorts[i] : i \in {j \in 1..Len(ProbedPorts) :
                                b.ports[ProbedPorts[j]] \in {"chrome", "own"}}}

\* what the caller of an acquisition sees: before is the session when the
\* operation began, start the session when _get_browser_client began
BrowserResult(op, before, start, b) ==
    [op |-> op,
     outcome |-> IF b.raised THEN "raised" ELSE "returned",
     page |-> IF b.raised THEN None ELSE b.page,
     port |-> IF ~b.raised /\ b.browser.kind = "cdp" THEN b.debug_port
              ELSE None,
     tiers |-> b.tiers, spawned |-> b.new_pids,
     reused |-> ~b.raised /\ before.page # None /\ b.page = before.page,
     had_page |-> before.page # None,
     was_open |-> before.page_open,
     was_responsive |-> before.responsive,
     age |-> before.time - before.created_at,
     chain |-> ~b.reused,
     chrome_ports |-> ChromePorts(start),
     installed |-> b.installed,
     forced |-> FALSE, memory_high |-> FALSE]

BrowserStart ==
    /\ playwright = FALSE
    /\ browser = NoBrowser
    /\ page = None
    /\ chrome_manager = FALSE
    /\ chrome_path = NoPath
    /\ user_data_dir = "none"
    /\ debug_port = None
    /\ chrome_process = None
    /\ session_start_time = None
    /\ time = Epoch
    /\ running = {}
    /\ page_open = FALSE
    /\ responsive = FALSE
    /\ created_at = Epoch
    /\ pages_made = 0
    /\ launched = 0
    /\ temp_dirs = 0
    /\ browser_ret = [op |-> "init", outcome |-> "returned", page |-> None,
                      port |-> None, tiers |-> <<>>, spawned |-> {},
                      reused |-> FALSE, had_page |-> FALSE,
                      was_open |-> FALSE, was_responsive |-> FALSE,
                      age |-> 0, chain |-> FALSE, chrome_ports |-> {},
                      installed |-> FALSE, forced |-> FALSE,
                      memory_high |-> FALSE]

BrowserIdle ==
    /\ BrowserStart
    /\ installed = FALSE
    /\ profile_found = FALSE
    /\ ports = [p \in Ports |-> "closed"]

BrowserInit ==
    /\ BrowserStart
    /\ \E h \in Hosts :
          /\ installed = h.installed
          /\ profile_found = h.profile_found
          /\ ports = h.ports

BrowserRoom(b) == b.launched <= MaxLaunched /\ b.pages_made <= MaxPages

\* nothing is attempted when the page at hand is returned
NoAttempt == [launch |-> "opened", cdp |-> TRUE, with_profile |-> TRUE,
              standard |-> TRUE, bundled |-> TRUE]
AttemptsOf(b) == IF b.page # None /\ b.page_open THEN {NoAttempt}
                 ELSE Attempts

\* _get_browser_client, as navigate, type_text, getContent and the other
\* capability functions call it first
GetBrowserClient ==
    \E a \in AttemptsOf(Session) :
        LET return(b) ==
                /\ BrowserRoom(b)
                /\ BrowserCommit(b)
                /\ browser_ret' = BrowserResult("get_browser_client",
                                                Session, Session, b)
        IN  return(GetBrowserClientBody(Session, a))

\* click_element until it has the page: _cleanup_browser when a fresh session
\* is forced or should_restart_browser_session says so, then
\* _get_browser_client
ClickElement ==
    \E force_fresh_session \in BOOLEAN : \E memory_high \in BOOLEAN :
    \E close_ok \in BOOLEAN :
        LET restart == \/ force_fresh_session
                       \/ ShouldRestartBrowserSession(Session, memory_high)
            acquire(b0) ==
                \E a \in AttemptsOf(b0) :
                    LET return(b) ==
                            /\ BrowserRoom(b)
                            /\ BrowserCommit(b)
                            /\ browser_ret' =
                                  [BrowserResult("click_element", Session,
                                                 b0, b)
                                   EXCEPT !.forced = force_fresh_session,
                                          !.memory_high = memory_high]
                    IN  return(GetBrowserClientBody(b0, a))
        IN  \* the inputs that make a difference
            /\ close_ok \/ (restart /\ browser.kind # "none")
            /\ memory_high => chrome_manager /\ chrome_process # None
            /\ force_fresh_session
                  => ~ShouldRestartBrowserSession(Session, memory_high)
            /\ acquire(IF restart THEN CleanupBrowserBody(Session, close_ok)
                       ELSE Session)

\* _cleanup_browser on its own, as registered with atexit
CleanupBrowser ==
    \E close_ok \in BOOLEAN :
        /\ close_ok \/ browser.kind # "none"
        /\ BrowserCommit(CleanupBrowserBody(Session, close_ok))
        /\ browser_ret' = BrowserResult("cleanup_browser", Session, Session,
                                        CleanupBrowserBody(Session, close_ok))

\* the clock advances
TimePasses ==
    /\ time + ClockStep <= MaxBrowserClock
    /\ time' = time + ClockStep
    /\ UNCHANGED <<playwright, browser, page, chrome_manager, chrome_path,
                   user_data_dir, debug_port, chrome_process,
                   session_start_time, installed, profile_found, ports,
                   running, page_open, responsive, created_at, pages_made,
                   launched, temp_dirs, browser_ret>>
    /\ UNCHANGED <<clientVars, skillVars, mainVars, registryVars,
                   contentVars, runVars, recorderVars>>

\* the page is closed from outside (the user closes the tab)
PageCloses ==
    /\ page # None /\ page_open
    /\ page_open' = FALSE
    /\ UNCHANGED <<playwright, browser, page, chrome_manager, chrome_path,
                   user_data_dir, debug_port, chrome_process,
                   session_start_time, time, installed, profile_found, ports,
                   running, responsive, created_at, pages_made, launched,
                   temp_dirs, browser_ret>>
    /\ UNCHANGED <<clientVars, skillVars, mainVars, registryVars,
                   contentVars, runVars, recorderVars>>

\* the page stops answering
PageHangs ==
    /\ page # None /\ page_open /\ responsive
    /\ responsive' = FALSE
    /\ UNCHANGED <<playwright, browser, page, chrome_manager, chrome_path,
                   user_data_dir, debug_port, chrome_process,
                   session_start_time, time, installed, profile_found, ports,
                   running, page_open, created_at, pages_made, launched,
                   temp_dirs, browser_ret>>
    /\ UNCHANGED <<clientVars, skillVars, mainVars, registryVars,
                   contentVars, runVars, recorderVars>>


vars == <<clientVars, skillVars, mainVars, registryVars, browserVars,
         contentVars,
         runVars,
         recorderVars>>

----------------------------------------------------------------------------
(* Properties of PersistentMCPClient *)

\* C1: call_tool and call_tool_structured never raise to their caller, in
\* any client state: every failure (of the lazy start or of the call itself)
\* comes back as a returned failure value.
C1_CallsNeverRaise ==
    ret.op \in Calls => ret.outcome = "returned"

\* C2: once a call has observed a closed stream or another I/O error on the
\* current process, the client is no longer Ready (until a fresh start()
\* replaces the process).
C2_FailedAfterIOError ==
    process \in found_closed => ~initialized

\* C3: under sequential use at most one request is outstanding, and the
\* line a call consumes is the response to the request that call just sent.
C3_NoIdSkew ==
    /\ ret.op \in Calls /\ ret.got # 0 => ret.got = ret.sent
    /\ ret.pending <= 1
    /\ Len(stdout) <= 1

\* a call got the response to its own request after an earlier tools/call
\* went to a process whose pipe failed
C3_Witness ==
    /\ ret.op \in Calls /\ ret.outcome = "returned" /\ ret.value # "None"
    /\ ret.sent > 0 /\ ret.got = ret.sent
    /\ \E i \in 1..Len(wire) :
          /\ wire[i].method = "tools/call"
          /\ wire[i].pid \in found_closed
          /\ wire[i].id < ret.sent

\* C4: over every sequence of start, calls and stop on one client object,
\* the ids of the requests written to the pipe are strictly increasing, so
\* no id is used twice.
C4_IdsStrictlyIncreasing ==
    \A i, j \in 1..Len(wire) : i < j => wire[i].id < wire[j].id

\* requests were written to two different processes (a stop or a failed
\* start lies between them), the last one a tools/call after a restart
C4_Witness ==
    /\ Len(wire) >= 4
    /\ wire[Len(wire)].method = "tools/call"
    /\ \E i \in 1..Len(wire) : wire[i].pid # wire[Len(wire)].pid
    /\ ret.op = "stop"

\* C18: after stop() returns from a state in which a child process exists,
\* the client is Stopped (no process handle, not initialized) and that child
\* has been terminated, whether or not the shutdown notification could be
\* written and whatever went wrong during the shutdown.
C18_StopTerminatesChild ==
    [][ret'.op = "stop" /\ process # None =>
          /\ process' = None
          /\ ~initialized'
          /\ process \notin alive']_vars

\* C19: stop() on a client that is already Stopped raises nothing, writes
\* nothing, terminates nothing and leaves the client Stopped, however often
\* it is repeated.
C19_StopWhenStoppedIsNoOp ==
    [][ret'.op = "stop" /\ process = None =>
          /\ ret'.outcome = "returned"
          /\ UNCHANGED <<initialized, process, request_id, tools, stdout,
                         wire, greeted, spawned, found_closed, alive>>]_vars

Written(method) == [dir |-> "write", what |-> method]
Dir(l) == [dir |-> l.dir, what |-> l.what]

\* the five lines of a complete handshake with the child p, the response to
\* tools/list being of kind k
Handshake(p, k) ==
    <<[pid |-> p, dir |-> "write", what |-> "initialize"],
      [pid |-> p, dir |-> "read", what |-> "result"],
      [pid |-> p, dir |-> "write", what |-> "notifications/initialized"],
      [pid |-> p, dir |-> "write", what |-> "tools/list"],
      [pid |-> p, dir |-> "read", what |-> k]>>

HandshakeDone(lines) ==
    Len(lines) >= 5 /\ \E k \in {"result", "error"} :
                          SubSeq(lines, 1, 5) = Handshake(spawned, k)

\* the lines of one operation go to one child; initialize is the first of
\* them, exactly one line is read between it and notifications/initialized,
\* tools/list follows the notification directly, and a tools/call is
\* written only to a child whose initialize response was read without error
HandshakeOrder ==
    \A i \in 1..Len(ret.io) :
        /\ ret.io[i].pid = ret.io[1].pid
        /\ Dir(ret.io[i]) = Written("initialize")
              => i = 1 /\ ret.io[i].pid = spawned
        /\ Dir(ret.io[i]) = Written("notifications/initialized")
              => /\ i = 3
                 /\ Dir(ret.io[1]) = Written("initialize")
                 /\ ret.io[2].dir = "read" /\ ret.io[2].what = "result"
        /\ Dir(ret.io[i]) = Written("tools/list")
              => i = 4 /\ Dir(ret.io[3]) = Written("notifications/initialized")
        /\ Dir(ret.io[i]) = Written("tools/call")
              => /\ greeted = ret.io[i].pid
                 /\ i = 1 \/ (i = 6 /\ HandshakeDone(ret.io))

\* a child is recorded as greeted in the step in which initialize was
\* written to it as the first line on its pipes and a result was read
Greeting ==
    greeted' # greeted /\ greeted' # None
    => /\ spawned' = spawned + 1 /\ greeted' = spawned'
       /\ Len(ret'.io) >= 2
       /\ ret'.io[1] = [pid |-> greeted', dir |-> "write",
                        what |-> "initialize"]
       /\ ret'.io[2] = [pid |-> greeted', dir |-> "read", what |-> "result"]

\* a start() of a client that is not Ready which returns has written and
\* read the whole handshake on the pipes of one new child
StartHandshake ==
    ret'.op = "start" /\ ~initialized /\ ret'.outcome = "returned"
    => /\ spawned' = spawned + 1
       /\ process' = spawned'
       /\ initialized'
       /\ \E k \in {"result", "error"} : ret'.io = Handshake(process', k)

\* a start() whose initialize response carries an error raises and leaves
\* the client without a process handle and not initialized
StartRefused ==
    /\ ret'.op = "start"
    /\ Len(ret'.io) >= 2
    /\ ret'.io[2].dir = "read" /\ ret'.io[2].what = "error"
    => /\ ret'.outcome = "raised"
       /\ ~initialized'
       /\ process' = None

\* C26: start() on a client that is not Ready writes to one freshly spawned
\* process, in this order, the initialize request, after reading exactly one
\* response line the notifications/initialized notification, and then
\* tools/list; no tools/call is ever written to a process before the
\* initialize response of that process was read without an error; and when
\* the initialize response carries an error, start() raises and leaves the
\* client not Ready with no process handle.
C26_HandshakeBeforeCalls ==
    /\ []HandshakeOrder
    /\ [][Greeting]_vars
    /\ [][StartHandshake]_vars
    /\ [][StartRefused]_vars

\* a tools/call was answered by the second child, after the first child had
\* answered initialize with an error
C26_Witness ==
    /\ ret.op \in Calls /\ ret.outcome = "returned" /\ ret.sent > 0
    /\ spawned = 2 /\ process = 2 /\ greeted = 2
    /\ found_closed = {}
    /\ Len(wire) = 4 /\ wire[1].pid = 1 /\ wire[2].pid = 2
    /\ Len(ret.io) = 7
    /\ Dir(ret.io[6]) = Written("tools/call")

\* stop() was repeated on a client that had been started and stopped
C19_Witness ==
    /\ ret.op = "stop"
    /\ ret.value = "nothing to stop, again"
    /\ spawned > 0
    /\ process = None /\ ~initialized

----------------------------------------------------------------------------
(* Properties of SkillExecutor *)

\* how many time steps the encryption time lies after the supplied timestamp
StepDrift == TimeStep(payload.enc_time) - TimeStep(timestamp)

Window == FirstOffset..LastOffset

\* C5: whenever the time step of the encryption time is the supplied
\* timestamp's step plus k, for some k in -2..4, decrypt_skill_code returns the
\* plaintext (so a payload encrypted at T decrypts with T + 25 s, for every T).
C5_DecryptsWithinWindow ==
    skill_ret.op = "decrypt_skill_code" /\ StepDrift \in Window
        => skill_ret.plaintext = payload.source

\* C6: whenever the step difference lies outside -2..4, decrypt_skill_code
\* returns None without raising, and no key of a time step outside the window
\* is ever tried.
C6_NoPlaintextOutsideWindow ==
    skill_ret.op = "decrypt_skill_code" =>
        /\ StepDrift \notin Window =>
              skill_ret.outcome = "returned" /\ skill_ret.plaintext = NoneValue
        /\ \A i \in 1..Len(skill_ret.tried) :
              skill_ret.tried[i] - TimeStep(timestamp) \in Window

\* C7: execute_skill returns True whenever the payload decrypts and run
\* returns normally, whatever stop_on_failure is, and a run that raises is
\* reported as failed: the exception leaves execute_skill, and
\* load_and_execute_skill returns False.
C7_ExecuteSkillReportsRun ==
    /\ skill_ret.op = "execute_skill" /\ skill_ret.plaintext = "run_returns"
          => skill_ret.outcome = "returned" /\ skill_ret.value = "True"
    /\ skill_ret.op = "execute_skill" /\ skill_ret.plaintext = "run_raises"
          => skill_ret.outcome = "raised"
    /\ skill_ret.op = "load_and_execute_skill"
       /\ skill_ret.plaintext = "run_raises"
          => skill_ret.outcome = "returned" /\ skill_ret.value = "False"

EntryPoints == {"execute_skill_code", "execute_skill", "load_and_execute_skill"}

\* the source text an entry point was given to run
GivenSource ==
    IF skill_ret.op = "execute_skill_code" THEN payload.source
    ELSE skill_ret.plaintext

ErrorOutcome == skill_ret.outcome = "raised" \/ skill_ret.value = "False"

\* C8: source text that defines no callable run always ends in an error
\* outcome and never in a reported success, through every entry point and for
\* both values of stop_on_failure.
C8_NoEntryAlwaysError ==
    skill_ret.op \in EntryPoints
    /\ GivenSource \in {"", "syntax_error", "no_run", "run_not_callable"}
        => ErrorOutcome

\* the modules of the corelib package
CorelibPackage == CorelibModules \cup {"excel", "llm", "user"}

\* an approved capability: a function defined in a corelib module
Approved(b) == b.obj = "function" /\ b.module \in CorelibPackage

\* C9: every name bound in the namespace a payload is executed against is an
\* approved capability function; no module object, interpreter built-in or
\* other host object is bound.
C9_OnlyCapabilities ==
    \A n \in DOMAIN namespace : Approved(namespace[n])

\* C24: when decrypt yields no plaintext execute_skill executes nothing (no
\* namespace is built, no payload code runs); it reports a completion (True)
\* when stop_on_failure is false and a failure when stop_on_failure is true
C24_NoPlaintextFollowsFlag ==
    (skill_ret.op = "execute_skill" /\ skill_ret.plaintext = NoneValue)
    => /\ ~skill_ret.executed
       /\ namespace = NoNamespace
       /\ (~stop_on_failure
             => skill_ret.outcome = "returned" /\ skill_ret.value = "True")
       /\ (stop_on_failure => ErrorOutcome)


\* C25: successive runs on one SkillExecutor share no mutable namespace
\* state: nothing an earlier payload wrote into its namespace, the context
\* binding included, is there for a later payload to find
C25_NothingLeftForNextRun ==
    run_ret.op = "execute_skill_code"
    => run_ret.found_globals = {} /\ run_ret.found_context = {}

\* C29: when load_and_execute_skill returns, whether with True, with False,
\* or after the payload, a missing entry point or the loading of the skill
\* raised, the global accessibility client that was started during the run
\* has been stopped and the module-level singleton is none again.
C29_GlobalClientCleanedUp ==
    skill_ret.op = "load_and_execute_skill"
    => mcp_client_instance = NoneValue

----------------------------------------------------------------------------
(* Properties of the skill runner *)

\* C10: when the payload has not returned by the deadline the runner reports
\* (25 seconds), the caller has been told "timed out" and given a failure
\* status by then, whether or not the thread ever stops; when the payload
\* returns before the deadline the caller is never told "timed out".
C10_TimedOutByReportedDeadline ==
    /\ thread = "running" /\ clock > ReportedDeadline
          => /\ main_pc = "exited"
             /\ printed = "Skill execution timed out"
             /\ exit_code = 1
    /\ thread = "finished" /\ finished_at < ReportedDeadline
          => printed # "Skill execution timed out"

----------------------------------------------------------------------------
(* Properties of MCPRecordManager *)

\* the tool list get_tools() yields for a registered server: the list its
\* client has cached, and nothing for a server that is not started
CachedTools(c) == IF c.client.initialized THEN c.client.tools ELSE {}

\* positions, in registration order, of the servers exposing the tool
ExposingIn(cs, tool_name) ==
    {i \in 1..Len(cs) : tool_name \in CachedTools(cs[i])}
Exposing(tool_name) == ExposingIn(clients, tool_name)

Earliest(idx) == CHOOSE i \in idx : \A j \in idx : i <= j

\* C11: find_tool_server(t) returns the earliest-registered server among
\* the registered servers whose cached tool list contains t, and no server
\* when there is none; two servers exposing the same name resolve to the one
\* registered first.
C11_FirstRegisteredWins ==
    manager_ret.op = "find_tool_server" =>
        IF Exposing(manager_ret.tool) = {}
        THEN manager_ret.value = NoServer
        ELSE manager_ret.value =
                 clients[Earliest(Exposing(manager_ret.tool))].name

\* two started servers expose the tool looked up; the one registered first
\* is not the first by name
C11_Witness ==
    /\ manager_ret.op = "find_tool_server"
    /\ Len(clients) = 2
    /\ Exposing(manager_ret.tool) = {1, 2}
    /\ clients[1].name = "chrome"
    /\ manager_ret.value = "chrome"

\* C12: initialize_all returns True only if every server registered at the
\* time of the call is Ready when it returns, and False if any of them
\* failed to start.
C12_TrueOnlyIfAllReady ==
    manager_ret.op = "initialize_all" /\ manager_ret.value = "True"
        => \A i \in 1..Len(clients) : clients[i].client.initialized

\* the tools/call requests among the requests written to a server
ToolCalls(w) == SelectSeq(w, LAMBDA r : r.method = "tools/call")

\* the step is a call_tool of the manager that found no server exposing the
\* tool, or was given the name of a server that is not registered
FailedLookup ==
    /\ manager_ret'.op = "call_tool"
    /\ \/ /\ manager_ret'.server = NoServer
          /\ ExposingIn(clients', manager_ret'.tool) = {}
       \/ /\ manager_ret'.server # NoServer
          /\ manager_ret'.server \notin RegisteredNames(clients)

\* C13: call_tool with a tool no server exposes, or with the name of a
\* server that is not registered, returns the failure value without raising
\* and has no side effects: nothing is written to any server, and the
\* registered servers and the state of each connection are unchanged.
C13_FailedLookupNoSideEffects ==
    [][FailedLookup =>
          /\ manager_ret'.outcome = "returned"
          /\ manager_ret'.value = "None"
          /\ clients' = clients]_vars

\* C13, amended: such a call returns the failure value without raising,
\* writes no tools/call request to any server, leaves the registered servers
\* and their order unchanged and leaves every connection that was Ready
\* untouched; a connection that was not Ready may have been started, or its
\* start attempted, by the lazy initialization.
C13_FailedLookupOnlyStarts ==
    [][FailedLookup =>
          /\ manager_ret'.outcome = "returned"
          /\ manager_ret'.value = "None"
          /\ Len(clients') = Len(clients)
          /\ \A i \in 1..Len(clients) :
                /\ clients'[i].name = clients[i].name
                /\ ToolCalls(clients'[i].client.wire)
                      = ToolCalls(clients[i].client.wire)
                /\ clients[i].client.initialized
                      => clients'[i].client = clients[i].client]_vars

\* a failed lookup in a registry with a started server
C13_Witness ==
    /\ manager_ret.op = "call_tool"
    /\ \/ /\ manager_ret.server = NoServer
          /\ Exposing(manager_ret.tool) = {}
       \/ /\ manager_ret.server # NoServer
          /\ manager_ret.server \notin RegisteredNames(clients)
    /\ manager_ret.value = "None"
    /\ \E i \in 1..Len(clients) : clients[i].client.initialized

\* C20: cleanup calls stop() on every registered server, also after the
\* stop() of an earlier one raised, and leaves the registry empty and
\* uninitialized; a second cleanup raises nothing and changes nothing.
C20_CleanupStopsAll ==
    [][manager_ret'.op = "cleanup" =>
          /\ manager_ret'.outcome = "returned"
          /\ manager_ret'.stopped = [i \in 1..Len(clients) |-> clients[i].name]
          /\ clients' = <<>>
          /\ ~manager_initialized'
          /\ manager_ret.op = "cleanup"
                => /\ UNCHANGED <<clients, manager_initialized>>
                   /\ manager_ret'.stopped = <<>>]_vars

\* two servers were stopped and the stop() of the first one raised
C20_Witness ==
    /\ manager_ret.op = "cleanup"
    /\ Len(manager_ret.stopped) = 2
    /\ manager_ret.stopped[1] \in manager_ret.failed
    /\ clients = <<>>

\* C21: add_server under a name that is already registered, whether the name
\* is given or derived from the path of the executable, returns False
\* without raising and leaves the registry as it was: the same servers in
\* the same order, each bound to the client it had
C21_DuplicateNameRefused ==
    [][manager_ret'.op = "add_server"
       /\ NameOf(manager_ret'.path, manager_ret'.server)
             \in RegisteredNames(clients)
       => /\ manager_ret'.outcome = "returned"
          /\ manager_ret'.value = "False"
          /\ clients' = clients
          /\ manager_initialized' = manager_initialized]_vars

\* the name derived from another path was refused while the server first
\* registered under it was started and had its tools
C21_Witness ==
    /\ manager_ret.op = "add_server"
    /\ manager_ret.value = "False"
    /\ manager_ret.server = NoServer
    /\ manager_ret.path = "/opt/ax.py"
    /\ Len(clients) = 2
    /\ clients[2].name = "ax"
    /\ clients[2].client.initialized
    /\ clients[2].client.tools # {}

----------------------------------------------------------------------------
(* Properties of the browser session *)

Acquisitions == {"get_browser_client", "click_element"}

\* C14: an operation that obtains the page returns the existing session (the
\* same page) if and only if the page handle is open, the session is younger
\* than the 1800 seconds of the time-to-live and the page answers the
\* responsiveness probe; otherwise a new session is acquired. Stated for
\* the calls in which no fresh session was asked for and the memory use of
\* the browser was not found excessive.
C14_ReuseIffHealthy ==
    (/\ browser_ret.op \in Acquisitions
     /\ browser_ret.had_page
     /\ ~browser_ret.forced
     /\ ~browser_ret.memory_high)
        => (browser_ret.reused
              <=> (/\ browser_ret.was_open
                   /\ browser_ret.age < SessionTTL
                   /\ browser_ret.was_responsive))

\* the tier of the fallback chain an attempt belongs to: attaching to a
\* Chrome that runs already, launching the executable found with a profile,
\* launching it without one, launching the bundled Chromium
TierOf(attempt) ==
    CASE attempt = "attach" -> 1
      [] attempt \in {"launch_debugging", "launch_profile"} -> 2
      [] attempt = "launch_standard" -> 3
      [] attempt = "bundled" -> 4
      [] OTHER -> 0

TiersTried(attempts) == {TierOf(attempts[i]) : i \in 1..Len(attempts)}

\* C15: the acquisition raises its fatal error only after every tier, the
\* launch of the bundled engine last, was attempted and failed: a failure in
\* one tier leads to the next one in the fixed order. Stated for the launch
\* tiers (the attach tier is the subject of C16): with an executable on the
\* machine both launches of it and the bundled engine were attempted,
\* without one the bundled engine was.
C15_FatalOnlyAfterEveryTier ==
    browser_ret.outcome = "raised"
        => /\ 4 \in TiersTried(browser_ret.tiers)
           /\ browser_ret.installed
                 => {2, 3} \subseteq TiersTried(browser_ret.tiers)

\* C16: when a Chrome with debugging listens on a probed port, the
\* acquisition attaches to the first such port and spawns no process,
\* whether or not an executable or a user profile is found.
C16_AttachesToRunningChrome ==
    (/\ browser_ret.op \in Acquisitions
     /\ browser_ret.chain
     /\ browser_ret.chrome_ports # {})
        => (/\ browser_ret.port \in browser_ret.chrome_ports
            /\ \A q \in browser_ret.chrome_ports : browser_ret.port <= q
            /\ browser_ret.spawned = {})

\* the processes the handles of the module refer to
Handles ==
    (IF chrome_process # None THEN {chrome_process} ELSE {})
    \cup (IF browser.kind = "launched" THEN {browser.pid} ELSE {})

\* C17: at most one launched browser process is running at any time, and it
\* is the one the process handle refers to.
C17_OneLiveBrowser ==
    /\ Cardinality(running) <= 1
    /\ running \subseteq Handles

\* C27: the teardown of a session (_cleanup_browser with
\* cleanup_chrome_instance) always terminates the browser process the manager
\* spawned and removes the temporary profile directory it created, also when
\* closing the browser handle raises; it never removes the user's own
\* profile directory and never terminates a browser it only attached to.
C27_TeardownTerminatesAndRemoves ==
    [][browser_ret'.op = "cleanup_browser"
       => /\ chrome_process # None => chrome_process \notin running'
          /\ user_data_dir \in TempProfiles => temp_dirs' = temp_dirs - 1
          /\ profile_found' = profile_found
          /\ \A p \in Ports : ports[p] = "chrome" => ports'[p] = "chrome"]_vars

\* launch_chrome_with_debugging returned True in the acquisition that gave
\* these tiers: the connection over CDP is tried right after it
LaunchSucceeded(tiers) ==
    \E i \in 1..(Len(tiers) - 1) :
        tiers[i] = "launch_debugging" /\ tiers[i + 1] = "connect"

\* C30: launch_chrome_with_debugging reports success and records a session
\* with the chosen port only if the process it spawned is still running and
\* is the listener on that port; when the spawned process has exited or
\* another process opened the port between find_available_port and the poll,
\* the launch is reported as failed.
C30_SuccessMeansOwnListener ==
    LaunchSucceeded(browser_ret.tiers)
    => /\ chrome_process \in running
       /\ debug_port # None
       /\ ports[debug_port] = "own"

----------------------------------------------------------------------------
(* Properties of RecorderContext *)

\* C28: during and after the exit of a RecorderContext the recording thread
\* and the exiting thread never operate on the same connection at the same
\* time: manager.cleanup() begins only after the recording thread completed
\* its last call, also when that thread is blocked in a read and has not
\* stopped within the 3 seconds of the join.
C28_CleanupAfterLastCall ==
    /\ cleanup_found \notin InCall
    /\ exit_pc = "cleanup" => recording_thread \notin InCall

----------------------------------------------------------------------------
(* Properties of the response handling of call_tool_structured *)

\* a successful response without a usable text: no item of type text, or a
\* first text item that is empty
NoResultResponse(r) ==
    LET texts == {i \in 1..Len(r.content) : r.content[i] # "image"}
    IN  /\ r.kind = "result"
        /\ \/ texts = {}
           \/ \E i \in texts : /\ \A j \in texts : i <= j
                                /\ r.content[i] = "empty_text"

FailureResponses == {r \in Responses : r.kind # "result"}

\* C22: what call_tool_structured returns for a successful response whose
\* text item is empty or absent differs from what it returns for an error
\* response or a transport failure, so the caller can tell them apart
C22_NoResultIsNotFailure ==
    structured_ret.op = "call_tool_structured" /\ NoResultResponse(response)
    => \A f \in FailureResponses :
          structured_ret.value # StructuredResult(f).value

\* the first item of type text whose text is not empty (white space only
\* counts as empty here), 0 when there is none
FirstNonEmptyText(content) ==
    LET texts == {i \in 1..Len(content) :
                    content[i] \in {"json_text", "plain_text"}}
    IN  IF texts = {} THEN 0
        ELSE CHOOSE i \in texts : \A j \in texts : i <= j

\* C23: for a successful response call_tool_structured returns the value of
\* the first text item whose text is not empty, parsed when it parses and
\* raw otherwise, whatever items without text and empty text items precede it
C23_FirstNonEmptyTextReturned ==
    /\ structured_ret.op = "call_tool_structured"
    /\ response.kind = "result"
    /\ FirstNonEmptyText(response.content) # 0
    => /\ structured_ret.item = FirstNonEmptyText(response.content)
       /\ structured_ret.value =
             IF response.content[structured_ret.item] = "json_text"
             THEN "parsed" ELSE "text"

----------------------------------------------------------------------------
(* Specifications *)

Init == ClientInit /\ SkillIdle /\ MainIdle /\ ManagerIdle /\ BrowserIdle
    /\ ContentIdle /\ RunIdle /\ RecorderIdle
Next == ClientNext
Spec == Init /\ [][Next]_vars

\* decrypt_skill_code applied to every payload and timestamp within the bounds
InitDecrypt == ClientInit /\ DecryptInit /\ MainIdle /\ ManagerIdle /\ BrowserIdle
    /\ ContentIdle /\ RunIdle /\ RecorderIdle
NextDecrypt == DecryptSkillCodeCall
SpecDecrypt == InitDecrypt /\ [][NextDecrypt]_vars

\* the entry points of SkillExecutor applied to every payload
InitSkill == ClientInit /\ SkillInit /\ MainIdle /\ ManagerIdle /\ BrowserIdle
    /\ ContentIdle /\ RunIdle /\ RecorderIdle
NextSkill ==
    ExecuteSkillCodeCall \/ ExecuteSkillCall \/ LoadAndExecuteSkillCall
SpecSkill == InitSkill /\ [][NextSkill]_vars

\* the skill runner
InitMain == ClientInit /\ MainInit /\ ManagerIdle /\ BrowserIdle
    /\ ContentIdle /\ RunIdle /\ RecorderIdle
NextMain ==
    \/ StartThread \/ ThreadFinish \/ Tick \/ TickToTimeout
    \/ JoinReturns \/ ReportAndExit
SpecMain == InitMain /\ [][NextMain]_vars

\* the manager and the servers registered with it
InitManager == ClientInit /\ SkillIdle /\ MainIdle /\ ManagerInit /\ BrowserIdle
    /\ ContentIdle /\ RunIdle /\ RecorderIdle
NextManager ==
    \/ AddServer \/ InitializeAll \/ FindToolServer \/ ManagerCallTool
    \/ Cleanup
SpecManager == InitManager /\ [][NextManager]_vars

\* the browser session on every machine within the bounds
InitBrowser ==
    ClientInit /\ SkillIdle /\ MainIdle /\ ManagerIdle /\ BrowserInit
    /\ ContentIdle /\ RunIdle /\ RecorderIdle
NextBrowser ==
    \/ GetBrowserClient \/ ClickElement \/ CleanupBrowser \/ TimePasses
    \/ PageCloses \/ PageHangs
SpecBrowser == InitBrowser /\ [][NextBrowser]_vars

\* call_tool_structured applied to every response within the bounds
InitContent ==
    ClientInit /\ SkillIdle /\ MainIdle /\ ManagerIdle /\ BrowserIdle
    /\ ContentInit /\ RunIdle /\ RecorderIdle
NextContent == StructuredCall
SpecContent == InitContent /\ [][NextContent]_vars

\* payloads executed one after the other on one executor
InitRuns ==
    ClientInit /\ SkillIdle /\ MainIdle /\ ManagerIdle /\ BrowserIdle
    /\ ContentIdle /\ RecorderIdle /\ RunInit
NextRuns == ExecuteSkillCodeRun
SpecRuns == InitRuns /\ [][NextRuns]_vars

\* the recording thread and the thread that leaves the with block
InitRecorder ==
    ClientInit /\ SkillIdle /\ MainIdle /\ ManagerIdle /\ BrowserIdle
    /\ ContentIdle /\ RunIdle /\ RecorderInit
NextRecorder == RecorderNext
SpecRecorder == InitRecorder /\ [][NextRecorder]_vars

====
